---- MODULE Spec2Model ----
(***************************************************************************)
(* Event-sourced Ride and Vehicle aggregates of autonomo: the commands'    *)
(* decide methods, the read models' evolve methods, and the value domains  *)
(* they work on.  Python objects are records whose "type" field is the     *)
(* class name (interfaces.py: type(self).__name__); constructors keep the  *)
(* positional order of the dataclass fields.                               *)
(***************************************************************************)
EXTENDS Integers, Sequences, FiniteSets

\* ---------------------------------------------------------------------
\* Bounds of the value domains
\* ---------------------------------------------------------------------
NumRideIds == 2
NumRiders == 1
NumOwners == 2
NumVins == 2
NumGeos == 1
\* the clock that decide reads with datetime.now()
MaxClock == 1
\* the datetimes carried by commands, by injected events and by drawn states
MaxStamp == 0
\* the longest event log the loops are run to
MaxLog == 4
\* the most vehicle events waiting on the vehicle-events topic
MaxTopic == 2
\* how far beyond the valid ranges coordinates are drawn, in degrees
GeoMargin == 1
\* how far around the VIN length the lengths of strings are drawn
VinMargin == 1

\* Values of the different Python types are kept apart by disjoint ranges,
\* so that a value stored in a field of another type stays recognisable.
\* Riders and Owners are both UserId values.
Times == 0..MaxStamp
Geos == 101..(100 + NumGeos)
Riders == 201..(200 + NumRiders)
Owners == 251..(250 + NumOwners)
RideIds == 301..(300 + NumRideIds)
Vins == 401..(400 + NumVins)
\* Python's None (RequestRide.__init__ sets self.ride = None)
None == 0 - 1

VARIABLES ride, rideOp, rideCreator, vehicle, vehicleOp, clock, history, readModel, published, facadeOp, valueOp, ridesTable, vehiclesTable, vehicleTopic, pipeOp, rideStream

vars == <<ride, rideOp, rideCreator, vehicle, vehicleOp, clock, history, readModel, published, facadeOp, valueOp, ridesTable, vehiclesTable, vehicleTopic, pipeOp, rideStream>>
rideVars == <<ride, rideOp, rideCreator>>
vehicleVars == <<vehicle, vehicleOp>>
facadeVars == <<readModel, published, facadeOp>>
pipeVars == <<ridesTable, vehiclesTable, vehicleTopic, pipeOp, rideStream>>

\* ---------------------------------------------------------------------
\* value.py: GeoCoordinates.  A Python float is a number or NaN; numbers
\* are counted in degrees.
\* ---------------------------------------------------------------------
Float(v) == [nan |-> FALSE, v |-> v]

NaN == [nan |-> TRUE, v |-> 0]

\* Python's a < b and a > b on floats: False when an operand is NaN
float_lt(a, b) == ~a.nan /\ ~b.nan /\ a.v < b.v

float_gt(a, b) == ~a.nan /\ ~b.nan /\ a.v > b.v

MAX_LATITUDE == 90

MIN_LATITUDE == 0 - MAX_LATITUDE

MAX_LONGITUDE == 180

MIN_LONGITUDE == 0 - MAX_LONGITUDE

\* GeoCoordinates.__init__: the object, or the exception raised
GeoCoordinates(latitude, longitude) ==
    IF float_lt(latitude, Float(MIN_LATITUDE))
          \/ float_gt(latitude, Float(MAX_LATITUDE))
    THEN [raised |-> "InvalidLatitude", value |-> None]
    ELSE IF float_lt(longitude, Float(MIN_LONGITUDE))
               \/ float_gt(longitude, Float(MAX_LONGITUDE))
    THEN [raised |-> "InvalidLongitude", value |-> None]
    ELSE [raised |-> "none",
          value |-> [type |-> "GeoCoordinates", latitude |-> latitude,
                     longitude |-> longitude]]

Latitudes ==
    {Float(v) : v \in (MIN_LATITUDE - GeoMargin)..(MAX_LATITUDE + GeoMargin)}
    \cup {NaN}

Longitudes ==
    {Float(v) : v \in (MIN_LONGITUDE - GeoMargin)..(MAX_LONGITUDE + GeoMargin)}
    \cup {NaN}

\* ---------------------------------------------------------------------
\* value.py: Vin.  VIN_PATTERN looks at a string only through the number
\* of its digits, of its letters, of its hyphens and of its other
\* characters, and through a newline that ends it; a string is the record
\* of these.
\* ---------------------------------------------------------------------
VIN_LENGTH == 17

Str(digits, letters, hyphens, others, newline) ==
    [digits |-> digits, letters |-> letters, hyphens |-> hyphens,
     others |-> others, newline |-> newline]

\* len(value)
StrLen(value) ==
    value.digits + value.letters + value.hyphens + value.others
        + (IF value.newline THEN 1 ELSE 0)

\* VIN_PATTERN.match(value) for ^(?=.*[0-9])(?=.*[A-Za-z])[0-9A-Za-z-]{17}$ :
\* a digit and a letter somewhere, seventeen characters of the class
\* [0-9A-Za-z-], then the end of the string or the newline that ends it.
VIN_PATTERN_match(value) ==
    /\ value.digits >= 1
    /\ value.letters >= 1
    /\ value.others = 0
    /\ value.digits + value.letters + value.hyphens = VIN_LENGTH

\* Vin.__init__: the object, or the exception raised
Vin(value) ==
    IF ~VIN_PATTERN_match(value)
    THEN [raised |-> "InvalidVinError", value |-> None]
    ELSE [raised |-> "none", value |-> [type |-> "Vin", value |-> value]]

Strs ==
    {Str(d, l, h, o, n) :
        d \in 0..(VIN_LENGTH + VinMargin), l \in 0..(VIN_LENGTH + VinMargin),
        h \in 0..VinMargin, o \in 0..VinMargin, n \in BOOLEAN}

VinStrs ==
    {s \in Strs : /\ StrLen(s) >= VIN_LENGTH - VinMargin
                  /\ StrLen(s) <= VIN_LENGTH + VinMargin}

\* ---------------------------------------------------------------------
\* rides.py: events (dataclass constructors, positional field order)
\* ---------------------------------------------------------------------
RideRequested(ride_, rider, pickup_time, origin, destination, requested_at) ==
    [type |-> "RideRequested", ride |-> ride_, rider |-> rider,
     pickup_time |-> pickup_time, origin |-> origin,
     destination |-> destination, requested_at |-> requested_at]

RideScheduled(ride_, vin, pickup_time, scheduled_at) ==
    [type |-> "RideScheduled", ride |-> ride_, vin |-> vin,
     pickup_time |-> pickup_time, scheduled_at |-> scheduled_at]

RequestedRideCancelled(ride_, cancelled_at) ==
    [type |-> "RequestedRideCancelled", ride |-> ride_,
     cancelled_at |-> cancelled_at]

ScheduledRideCancelled(ride_, vin, cancelled_at) ==
    [type |-> "ScheduledRideCancelled", ride |-> ride_, vin |-> vin,
     cancelled_at |-> cancelled_at]

RiderPickedUp(ride_, vin, rider, pickup_location, picked_up_at) ==
    [type |-> "RiderPickedUp", ride |-> ride_, vin |-> vin, rider |-> rider,
     pickup_location |-> pickup_location, picked_up_at |-> picked_up_at]

RiderDroppedOff(ride_, vin, drop_off_location, dropped_off_at) ==
    [type |-> "RiderDroppedOff", ride |-> ride_, vin |-> vin,
     drop_off_location |-> drop_off_location,
     dropped_off_at |-> dropped_off_at]

\* ---------------------------------------------------------------------
\* rides.py: aggregate / read model variants
\* ---------------------------------------------------------------------
InitialRideState == [type |-> "InitialRideState"]

RequestedRide(id, rider, requested_pickup_time, pickup_location, drop_off_location, requested_at) ==
    [type |-> "RequestedRide", id |-> id, rider |-> rider,
     requested_pickup_time |-> requested_pickup_time,
     pickup_location |-> pickup_location,
     drop_off_location |-> drop_off_location,
     requested_at |-> requested_at]

ScheduledRide(id, rider, scheduled_pickup_time, pickup_location, drop_off_location, vin, scheduled_at) ==
    [type |-> "ScheduledRide", id |-> id, rider |-> rider,
     scheduled_pickup_time |-> scheduled_pickup_time,
     pickup_location |-> pickup_location,
     drop_off_location |-> drop_off_location,
     vin |-> vin, scheduled_at |-> scheduled_at]

InProgressRide(id, rider, pickup_location, drop_off_location, scheduled_at, vin, pickup_time, picked_up_at) ==
    [type |-> "InProgressRide", id |-> id, rider |-> rider,
     pickup_location |-> pickup_location,
     drop_off_location |-> drop_off_location,
     scheduled_at |-> scheduled_at, vin |-> vin,
     pickup_time |-> pickup_time, picked_up_at |-> picked_up_at]

CancelledRequestedRide(id, rider, requested_pickup_time, pickup_location, drop_off_location, cancelled_at) ==
    [type |-> "CancelledRequestedRide", id |-> id, rider |-> rider,
     requested_pickup_time |-> requested_pickup_time,
     pickup_location |-> pickup_location,
     drop_off_location |-> drop_off_location,
     cancelled_at |-> cancelled_at]

CancelledScheduledRide(id, rider, scheduled_pickup_time, pickup_location, drop_off_location, vin, scheduled_at, cancelled_at) ==
    [type |-> "CancelledScheduledRide", id |-> id, rider |-> rider,
     scheduled_pickup_time |-> scheduled_pickup_time,
     pickup_location |-> pickup_location,
     drop_off_location |-> drop_off_location,
     vin |-> vin, scheduled_at |-> scheduled_at,
     cancelled_at |-> cancelled_at]

CompletedRide(id, rider, pickup_time, pickup_location, drop_off_location, vin, picked_up_at, dropped_off_at) ==
    [type |-> "CompletedRide", id |-> id, rider |-> rider,
     pickup_time |-> pickup_time, pickup_location |-> pickup_location,
     drop_off_location |-> drop_off_location, vin |-> vin,
     picked_up_at |-> picked_up_at, dropped_off_at |-> dropped_off_at]

\* ---------------------------------------------------------------------
\* rides.py: commands
\* ---------------------------------------------------------------------
RequestRide(rider, origin, destination, pickup_time) ==
    [type |-> "RequestRide", ride |-> None, rider |-> rider,
     origin |-> origin, destination |-> destination,
     pickup_time |-> pickup_time]

ScheduleRide(ride_, vin, pickup_time) ==
    [type |-> "ScheduleRide", ride |-> ride_, vin |-> vin,
     pickup_time |-> pickup_time]

ConfirmPickup(ride_, vin, rider, pickup_location) ==
    [type |-> "ConfirmPickup", ride |-> ride_, vin |-> vin, rider |-> rider,
     pickup_location |-> pickup_location]

EndRide(ride_, drop_off_location) ==
    [type |-> "EndRide", ride |-> ride_,
     drop_off_location |-> drop_off_location]

CancelRide(ride_) == [type |-> "CancelRide", ride |-> ride_]

\* The outcome of a decide call: the returned event list, or the exception
\* that left the call, and the state object as the call leaves it.  The
\* states are mutable dataclasses passed by reference; no decide assigns to
\* an attribute of the state it is given.
Returned(state, events) ==
    [raised |-> "none", events |-> events, state |-> state]

Raised(state, error) == [raised |-> error, events |-> <<>>, state |-> state]

\* raise RideCommandError(f"... {self} to Ride {state}: ..."): every ride
\* variant and every ride command has a total __repr__ / __str__.
RideCommandError(command, state) == Raised(state, "RideCommandError")

\* decide reads two things from outside: uuid4() and datetime.now(); they
\* are the parameters new_id and now.
RequestRide_decide(self, state, new_id, now) ==
    IF state.type = "InitialRideState"
    THEN Returned(state, <<RideRequested(new_id, self.rider, self.origin,
                                  self.destination, self.pickup_time, now)>>)
    ELSE RideCommandError(self, state)

\* variant: the scheduling time is the pickup time asked for by the command
ScheduleRide_decide_pickupTime(self, state, now) ==
    IF state.type = "RequestedRide"
    THEN Returned(state, <<RideScheduled(self.ride, self.vin, self.pickup_time,
                                  self.pickup_time)>>)
    ELSE RideCommandError(self, state)

ScheduleRide_decide(self, state, now) ==
    IF state.type = "RequestedRide"
    THEN Returned(state, <<RideScheduled(self.ride, self.vin,
                                         self.pickup_time, now)>>)
    ELSE RideCommandError(self, state)

\* variant: the vehicle is noted on the ride before the guard is tested
ConfirmPickup_decide_assignsVin(self, state, now) ==
    LET noted == IF "vin" \in DOMAIN state
                 THEN [state EXCEPT !.vin = self.vin] ELSE state
    IN  IF state.type = "ScheduledRide"
        THEN Returned(noted, <<RiderPickedUp(self.ride, self.vin, self.rider,
                                             self.pickup_location, now)>>)
        ELSE RideCommandError(self, noted)

ConfirmPickup_decide(self, state, now) ==
    IF state.type = "ScheduledRide"
    THEN Returned(state, <<RiderPickedUp(self.ride, self.vin, self.rider,
                                  self.pickup_location, now)>>)
    ELSE RideCommandError(self, state)

\* variant: EndRide also accepted on a ride that is already completed
EndRide_decide_onCompleted(self, state, now) ==
    IF state.type \in {"InProgressRide", "CompletedRide"}
    THEN Returned(state, <<RiderDroppedOff(self.ride, state.vin,
                                    self.drop_off_location, now)>>)
    ELSE RideCommandError(self, state)

EndRide_decide(self, state, now) ==
    IF state.type = "InProgressRide"
    THEN Returned(state, <<RiderDroppedOff(self.ride, state.vin,
                                    self.drop_off_location, now)>>)
    ELSE RideCommandError(self, state)

\* variant: one cancellation event for both cancellable states
CancelRide_decide_oneEvent(self, state, now) ==
    IF state.type \in {"RequestedRide", "ScheduledRide"}
    THEN Returned(state, <<RequestedRideCancelled(self.ride, now)>>)
    ELSE RideCommandError(self, state)

CancelRide_decide(self, state, now) ==
    IF state.type = "RequestedRide"
    THEN Returned(state, <<RequestedRideCancelled(self.ride, now)>>)
    ELSE IF state.type = "ScheduledRide"
    THEN Returned(state, <<ScheduledRideCancelled(self.ride, state.vin, now)>>)
    ELSE RideCommandError(self, state)

\* command.decide(state): Python's method dispatch on the command's class
RideCommand_decide(command, state, new_id, now) ==
    CASE command.type = "RequestRide" ->
            RequestRide_decide(command, state, new_id, now)
      [] command.type = "ScheduleRide" -> ScheduleRide_decide(command, state, now)
      [] command.type = "ConfirmPickup" -> ConfirmPickup_decide(command, state, now)
      [] command.type = "EndRide" -> EndRide_decide(command, state, now)
      [] command.type = "CancelRide" -> CancelRide_decide(command, state, now)

\* ---------------------------------------------------------------------
\* rides.py: evolve
\* ---------------------------------------------------------------------
InitialRideState_evolve(self, event) ==
    IF event.type = "RideRequested"
    THEN RequestedRide(event.ride, event.rider, event.pickup_time,
                       event.origin, event.destination, event.requested_at)
    ELSE self

\* variant: either cancellation event cancels a requested ride
RequestedRide_evolve_anyCancel(self, event) ==
    IF event.type \in {"RequestedRideCancelled", "ScheduledRideCancelled"}
    THEN CancelledRequestedRide(self.id, self.rider,
                                self.requested_pickup_time,
                                self.pickup_location, self.drop_off_location,
                                event.cancelled_at)
    ELSE IF event.type = "RideScheduled"
    THEN ScheduledRide(self.id, self.rider, event.pickup_time,
                       self.pickup_location, self.drop_off_location,
                       event.vin, event.scheduled_at)
    ELSE self

\* variant: a ride is scheduled only by an event that names its own id
RequestedRide_evolve_sameId(self, event) ==
    IF event.type = "RequestedRideCancelled"
    THEN CancelledRequestedRide(self.id, self.rider,
                                self.requested_pickup_time,
                                self.pickup_location, self.drop_off_location,
                                event.cancelled_at)
    ELSE IF event.type = "RideScheduled" /\ event.ride = self.id
    THEN ScheduledRide(self.id, self.rider, event.pickup_time,
                       self.pickup_location, self.drop_off_location,
                       event.vin, event.scheduled_at)
    ELSE self

RequestedRide_evolve(self, event) ==
    IF event.type = "RequestedRideCancelled"
    THEN CancelledRequestedRide(self.id, self.rider,
                                self.requested_pickup_time,
                                self.pickup_location, self.drop_off_location,
                                event.cancelled_at)
    ELSE IF event.type = "RideScheduled"
    THEN ScheduledRide(self.id, self.rider, event.pickup_time,
                       self.pickup_location, self.drop_off_location,
                       event.vin, event.scheduled_at)
    ELSE self

\* variant: cancelling a scheduled ride puts it back among the requested
ScheduledRide_evolve_unschedule(self, event) ==
    IF event.type = "ScheduledRideCancelled"
    THEN RequestedRide(self.id, self.rider, self.scheduled_pickup_time,
                       self.pickup_location, self.drop_off_location,
                       self.scheduled_at)
    ELSE IF event.type = "RiderPickedUp"
    THEN InProgressRide(self.id, self.rider, event.pickup_location,
                        self.drop_off_location, self.scheduled_at, self.vin,
                        self.scheduled_pickup_time, event.picked_up_at)
    ELSE self

\* variant: the ride in progress takes the vin of the pickup event
ScheduledRide_evolve_eventVin(self, event) ==
    IF event.type = "ScheduledRideCancelled"
    THEN CancelledScheduledRide(self.id, self.rider,
                                self.scheduled_pickup_time,
                                self.pickup_location, self.drop_off_location,
                                self.vin, self.scheduled_at,
                                event.cancelled_at)
    ELSE IF event.type = "RiderPickedUp"
    THEN InProgressRide(self.id, self.rider, event.pickup_location,
                        self.drop_off_location, self.scheduled_at, event.vin,
                        self.scheduled_pickup_time, event.picked_up_at)
    ELSE self

ScheduledRide_evolve(self, event) ==
    IF event.type = "ScheduledRideCancelled"
    THEN CancelledScheduledRide(self.id, self.rider,
                                self.scheduled_pickup_time,
                                self.pickup_location, self.drop_off_location,
                                self.vin, self.scheduled_at,
                                event.cancelled_at)
    ELSE IF event.type = "RiderPickedUp"
    THEN InProgressRide(self.id, self.rider, event.pickup_location,
                        self.drop_off_location, self.scheduled_at, self.vin,
                        self.scheduled_pickup_time, event.picked_up_at)
    ELSE self

\* variant: the completed ride takes the id of the event
InProgressRide_evolve_eventId(self, event) ==
    IF event.type = "RiderDroppedOff"
    THEN CompletedRide(event.ride, self.rider, self.pickup_time,
                       self.pickup_location, event.drop_off_location,
                       self.vin, self.picked_up_at, event.dropped_off_at)
    ELSE self

InProgressRide_evolve(self, event) ==
    IF event.type = "RiderDroppedOff"
    THEN CompletedRide(self.id, self.rider, self.pickup_time,
                       self.pickup_location, event.drop_off_location,
                       self.vin, self.picked_up_at, event.dropped_off_at)
    ELSE self

CancelledRequestedRide_evolve(self, event) == self

CancelledScheduledRide_evolve(self, event) == self

\* variant: a later drop-off overwrites the drop-off of a completed ride
CompletedRide_evolve_redrop(self, event) ==
    IF event.type = "RiderDroppedOff"
    THEN CompletedRide(self.id, self.rider, self.pickup_time,
                       self.pickup_location, event.drop_off_location,
                       event.vin, self.picked_up_at, event.dropped_off_at)
    ELSE self

CompletedRide_evolve(self, event) == self

\* state.evolve(event): Python's method dispatch on the state's class
Ride_evolve(state, event) ==
    CASE state.type = "InitialRideState" -> InitialRideState_evolve(state, event)
      [] state.type = "RequestedRide" -> RequestedRide_evolve(state, event)
      [] state.type = "ScheduledRide" -> ScheduledRide_evolve(state, event)
      [] state.type = "InProgressRide" -> InProgressRide_evolve(state, event)
      [] state.type = "CancelledRequestedRide" ->
            CancelledRequestedRide_evolve(state, event)
      [] state.type = "CancelledScheduledRide" ->
            CancelledScheduledRide_evolve(state, event)
      [] state.type = "CompletedRide" -> CompletedRide_evolve(state, event)

\* ---------------------------------------------------------------------
\* Inputs: every well-typed ride command and ride event over the domains
\* ---------------------------------------------------------------------
RideCommands ==
    {RequestRide(u, o, d, t) : u \in Riders, o \in Geos, d \in Geos, t \in Times}
    \cup {ScheduleRide(r, v, t) : r \in RideIds, v \in Vins, t \in Times}
    \cup {ConfirmPickup(r, v, u, g) :
            r \in RideIds, v \in Vins, u \in Riders, g \in Geos}
    \cup {EndRide(r, g) : r \in RideIds, g \in Geos}
    \cup {CancelRide(r) : r \in RideIds}

RideEvents ==
    {RideRequested(r, u, pt, o, d, t) :
        r \in RideIds, u \in Riders, pt \in Times, o \in Geos, d \in Geos,
        t \in Times}
    \cup {RideScheduled(r, v, pt, t) :
            r \in RideIds, v \in Vins, pt \in Times, t \in Times}
    \cup {RequestedRideCancelled(r, t) : r \in RideIds, t \in Times}
    \cup {ScheduledRideCancelled(r, v, t) :
            r \in RideIds, v \in Vins, t \in Times}
    \cup {RiderPickedUp(r, v, u, g, t) :
            r \in RideIds, v \in Vins, u \in Riders, g \in Geos, t \in Times}
    \cup {RiderDroppedOff(r, v, g, t) :
            r \in RideIds, v \in Vins, g \in Geos, t \in Times}

\* ---------------------------------------------------------------------
\* vehicles.py: events (dataclass constructors, positional field order)
\* ---------------------------------------------------------------------
VehicleAdded(vin, owner) ==
    [type |-> "VehicleAdded", vin |-> vin, owner |-> owner]

VehicleAvailable(vin, available_at) ==
    [type |-> "VehicleAvailable", vin |-> vin, available_at |-> available_at]

VehicleOccupied(vin, occupied_at) ==
    [type |-> "VehicleOccupied", vin |-> vin, occupied_at |-> occupied_at]

VehicleReturnRequested(vin, return_requested_at) ==
    [type |-> "VehicleReturnRequested", vin |-> vin,
     return_requested_at |-> return_requested_at]

VehicleReturning(vin, returning_at) ==
    [type |-> "VehicleReturning", vin |-> vin, returning_at |-> returning_at]

VehicleReturned(vin, returned_at) ==
    [type |-> "VehicleReturned", vin |-> vin, returned_at |-> returned_at]

VehicleRemoved(vin, owner, removed_at) ==
    [type |-> "VehicleRemoved", vin |-> vin, owner |-> owner,
     removed_at |-> removed_at]

\* ---------------------------------------------------------------------
\* vehicles.py: aggregate / read model variants
\* ---------------------------------------------------------------------
InitialVehicleState == [type |-> "InitialVehicleState"]

InventoryVehicle(vin, owner) ==
    [type |-> "InventoryVehicle", vin |-> vin, owner |-> owner]

AvailableVehicle(vin, owner) ==
    [type |-> "AvailableVehicle", vin |-> vin, owner |-> owner]

OccupiedVehicle(vin, owner) ==
    [type |-> "OccupiedVehicle", vin |-> vin, owner |-> owner]

OccupiedReturningVehicle(vin, owner) ==
    [type |-> "OccupiedReturningVehicle", vin |-> vin, owner |-> owner]

ReturningVehicle(vin, owner) ==
    [type |-> "ReturningVehicle", vin |-> vin, owner |-> owner]

\* ---------------------------------------------------------------------
\* vehicles.py: commands
\* ---------------------------------------------------------------------
AddVehicle(vin, owner) == [type |-> "AddVehicle", vin |-> vin, owner |-> owner]

MakeVehicleAvailable(vin) == [type |-> "MakeVehicleAvailable", vin |-> vin]

MarkVehicleOccupied(vin) == [type |-> "MarkVehicleOccupied", vin |-> vin]

MarkVehicleUnoccupied(vin) == [type |-> "MarkVehicleUnoccupied", vin |-> vin]

RequestVehicleReturn(vin) == [type |-> "RequestVehicleReturn", vin |-> vin]

ConfirmVehicleReturn(vin) == [type |-> "ConfirmVehicleReturn", vin |-> vin]

RemoveVehicle(vin, owner) ==
    [type |-> "RemoveVehicle", vin |-> vin, owner |-> owner]

\* Reading an attribute: the stored value, or the exception of the
\* InitialVehicleState properties.
Vehicle_vin(state) ==
    IF state.type = "InitialVehicleState"
    THEN [raised |-> "IllegalStateError", value |-> None]
    ELSE [raised |-> "none", value |-> state.vin]

Vehicle_owner(state) ==
    IF state.type = "InitialVehicleState"
    THEN [raised |-> "IllegalStateError", value |-> None]
    ELSE [raised |-> "none", value |-> state.owner]

\* The dataclass-generated __repr__ reads the fields vin, owner in that
\* order; the first property that raises ends it.
Vehicle_repr(state) ==
    IF Vehicle_vin(state).raised # "none" THEN Vehicle_vin(state).raised
    ELSE IF Vehicle_owner(state).raised # "none" THEN Vehicle_owner(state).raised
    ELSE "none"

\* raise VehicleCommandError(self, state, message): __init__ formats
\* f"... {command} to Vehicle {state}: {message}" before the exception
\* exists, so an exception of repr(state) is what leaves decide.
VehicleCommandError(command, state, message) ==
    IF Vehicle_repr(state) # "none"
    THEN Raised(state, Vehicle_repr(state))
    ELSE Raised(state, "VehicleCommandError")

AddVehicle_decide(self, state) ==
    IF state.type = "InitialVehicleState"
    THEN Returned(state, <<VehicleAdded(self.vin, self.owner)>>)
    ELSE VehicleCommandError(self, state, "Vehicle already exists")

\* variant: a vehicle that is available already may be made available again
MakeVehicleAvailable_decide_again(self, state, now) ==
    IF state.type \in {"InventoryVehicle", "AvailableVehicle"}
    THEN Returned(state, <<VehicleAvailable(self.vin, now)>>)
    ELSE VehicleCommandError(self, state,
            "Only vehicles in the inventory can be made available")

MakeVehicleAvailable_decide(self, state, now) ==
    IF state.type = "InventoryVehicle"
    THEN Returned(state, <<VehicleAvailable(self.vin, now)>>)
    ELSE VehicleCommandError(self, state,
            "Only vehicles in the inventory can be made available")

\* variant: only the vehicle the command names may become occupied
MarkVehicleOccupied_decide_sameVin(self, state, now) ==
    IF state.type = "AvailableVehicle" /\ self.vin = state.vin
    THEN Returned(state, <<VehicleOccupied(self.vin, now)>>)
    ELSE VehicleCommandError(self, state,
            "Only available vehicles can become occupied")

MarkVehicleOccupied_decide(self, state, now) ==
    IF state.type = "AvailableVehicle"
    THEN Returned(state, <<VehicleOccupied(self.vin, now)>>)
    ELSE VehicleCommandError(self, state,
            "Only available vehicles can become occupied")

\* variant: unoccupying always makes the vehicle available
MarkVehicleUnoccupied_decide_available(self, state, now) ==
    IF state.type \in {"OccupiedVehicle", "OccupiedReturningVehicle"}
    THEN Returned(state, <<VehicleAvailable(self.vin, now)>>)
    ELSE VehicleCommandError(self, state,
            "Only occupied or occupied-returning vehicles can be marked as unoccupied")

MarkVehicleUnoccupied_decide(self, state, now) ==
    IF state.type = "OccupiedVehicle"
    THEN Returned(state, <<VehicleAvailable(self.vin, now)>>)
    ELSE IF state.type = "OccupiedReturningVehicle"
    THEN Returned(state, <<VehicleReturning(self.vin, now)>>)
    ELSE VehicleCommandError(self, state,
            "Only occupied or occupied-returning vehicles can be marked as unoccupied")

RequestVehicleReturn_decide(self, state, now) ==
    IF state.type = "AvailableVehicle"
    THEN Returned(state, <<VehicleReturning(self.vin, now)>>)
    ELSE IF state.type = "OccupiedVehicle"
    THEN Returned(state, <<VehicleReturnRequested(self.vin, now)>>)
    ELSE VehicleCommandError(self, state,
            "Only available or occupied vehicles can be requested for return")

\* variant: a return is confirmed only while a rider is still aboard
ConfirmVehicleReturn_decide_occupied(self, state, now) ==
    IF state.type = "OccupiedReturningVehicle"
    THEN Returned(state, <<VehicleReturned(self.vin, now)>>)
    ELSE VehicleCommandError(self, state,
            "Only vehicles being returned can be confirmed as returned")

ConfirmVehicleReturn_decide(self, state, now) ==
    IF state.type = "ReturningVehicle"
    THEN Returned(state, <<VehicleReturned(self.vin, now)>>)
    ELSE VehicleCommandError(self, state,
            "Only vehicles being returned can be confirmed as returned")

\* variant: only the owner of the vehicle may remove it
RemoveVehicle_decide_ownerOnly(self, state, now) ==
    IF state.type = "InventoryVehicle" /\ self.owner = state.owner
    THEN Returned(state, <<VehicleRemoved(self.vin, self.owner, now)>>)
    ELSE VehicleCommandError(self, state,
            "Only vehicles in the inventory can be removed")

RemoveVehicle_decide(self, state, now) ==
    IF state.type = "InventoryVehicle"
    THEN Returned(state, <<VehicleRemoved(self.vin, self.owner, now)>>)
    ELSE VehicleCommandError(self, state,
            "Only vehicles in the inventory can be removed")

\* command.decide(state): Python's method dispatch on the command's class
VehicleCommand_decide(command, state, now) ==
    CASE command.type = "AddVehicle" -> AddVehicle_decide(command, state)
      [] command.type = "MakeVehicleAvailable" ->
            MakeVehicleAvailable_decide(command, state, now)
      [] command.type = "MarkVehicleOccupied" ->
            MarkVehicleOccupied_decide(command, state, now)
      [] command.type = "MarkVehicleUnoccupied" ->
            MarkVehicleUnoccupied_decide(command, state, now)
      [] command.type = "RequestVehicleReturn" ->
            RequestVehicleReturn_decide(command, state, now)
      [] command.type = "ConfirmVehicleReturn" ->
            ConfirmVehicleReturn_decide(command, state, now)
      [] command.type = "RemoveVehicle" ->
            RemoveVehicle_decide(command, state, now)

\* ---------------------------------------------------------------------
\* vehicles.py: evolve
\* ---------------------------------------------------------------------
InitialVehicleState_evolve(self, event) ==
    IF event.type = "VehicleAdded"
    THEN InventoryVehicle(event.vin, event.owner)
    ELSE self

\* variant: a removed vehicle stays in the inventory
InventoryVehicle_evolve_keep(self, event) ==
    IF event.type = "VehicleAvailable"
    THEN AvailableVehicle(self.vin, self.owner)
    ELSE self

InventoryVehicle_evolve(self, event) ==
    IF event.type = "VehicleAvailable"
    THEN AvailableVehicle(self.vin, self.owner)
    ELSE IF event.type = "VehicleRemoved"
    THEN InitialVehicleState
    ELSE self

\* variant: the occupied vehicle takes the vin of the event
AvailableVehicle_evolve_eventVin(self, event) ==
    IF event.type = "VehicleOccupied"
    THEN OccupiedVehicle(event.vin, self.owner)
    ELSE IF event.type = "VehicleReturning"
    THEN ReturningVehicle(self.vin, self.owner)
    ELSE self

\* variant: a second VehicleAvailable takes the vehicle back to the inventory
AvailableVehicle_evolve_toggle(self, event) ==
    IF event.type = "VehicleOccupied"
    THEN OccupiedVehicle(self.vin, self.owner)
    ELSE IF event.type = "VehicleReturning"
    THEN ReturningVehicle(self.vin, self.owner)
    ELSE IF event.type = "VehicleAvailable"
    THEN InventoryVehicle(self.vin, self.owner)
    ELSE self

AvailableVehicle_evolve(self, event) ==
    IF event.type = "VehicleOccupied"
    THEN OccupiedVehicle(self.vin, self.owner)
    ELSE IF event.type = "VehicleReturning"
    THEN ReturningVehicle(self.vin, self.owner)
    ELSE self

\* variant: VehicleReturning is applied to an occupied vehicle too
OccupiedVehicle_evolve_returning(self, event) ==
    IF event.type = "VehicleAvailable"
    THEN AvailableVehicle(self.vin, self.owner)
    ELSE IF event.type = "VehicleReturnRequested"
    THEN OccupiedReturningVehicle(self.vin, self.owner)
    ELSE IF event.type = "VehicleReturning"
    THEN ReturningVehicle(self.vin, self.owner)
    ELSE self

OccupiedVehicle_evolve(self, event) ==
    IF event.type = "VehicleAvailable"
    THEN AvailableVehicle(self.vin, self.owner)
    ELSE IF event.type = "VehicleReturnRequested"
    THEN OccupiedReturningVehicle(self.vin, self.owner)
    ELSE self

OccupiedReturningVehicle_evolve(self, event) ==
    IF event.type = "VehicleReturning"
    THEN ReturningVehicle(self.vin, self.owner)
    ELSE self

\* variant: a returned vehicle is available at once
ReturningVehicle_evolve_available(self, event) ==
    IF event.type = "VehicleReturned"
    THEN AvailableVehicle(self.vin, self.owner)
    ELSE self

ReturningVehicle_evolve(self, event) ==
    IF event.type = "VehicleReturned"
    THEN InventoryVehicle(self.vin, self.owner)
    ELSE self

\* state.evolve(event): Python's method dispatch on the state's class
Vehicle_evolve(state, event) ==
    CASE state.type = "InitialVehicleState" ->
            InitialVehicleState_evolve(state, event)
      [] state.type = "InventoryVehicle" -> InventoryVehicle_evolve(state, event)
      [] state.type = "AvailableVehicle" -> AvailableVehicle_evolve(state, event)
      [] state.type = "OccupiedVehicle" -> OccupiedVehicle_evolve(state, event)
      [] state.type = "OccupiedReturningVehicle" ->
            OccupiedReturningVehicle_evolve(state, event)
      [] state.type = "ReturningVehicle" -> ReturningVehicle_evolve(state, event)

\* ---------------------------------------------------------------------
\* Inputs: every well-typed vehicle command and vehicle event
\* ---------------------------------------------------------------------
VehicleCommands ==
    {AddVehicle(v, u) : v \in Vins, u \in Owners}
    \cup {MakeVehicleAvailable(v) : v \in Vins}
    \cup {MarkVehicleOccupied(v) : v \in Vins}
    \cup {MarkVehicleUnoccupied(v) : v \in Vins}
    \cup {RequestVehicleReturn(v) : v \in Vins}
    \cup {ConfirmVehicleReturn(v) : v \in Vins}
    \cup {RemoveVehicle(v, u) : v \in Vins, u \in Owners}

VehicleEvents ==
    {VehicleAdded(v, u) : v \in Vins, u \in Owners}
    \cup {VehicleAvailable(v, t) : v \in Vins, t \in Times}
    \cup {VehicleOccupied(v, t) : v \in Vins, t \in Times}
    \cup {VehicleReturnRequested(v, t) : v \in Vins, t \in Times}
    \cup {VehicleReturning(v, t) : v \in Vins, t \in Times}
    \cup {VehicleReturned(v, t) : v \in Vins, t \in Times}
    \cup {VehicleRemoved(v, u, t) : v \in Vins, u \in Owners, t \in Times}

\* Every well-typed instance of the ride variants
RideStates ==
    {InitialRideState}
    \cup {RequestedRide(r, u, pt, o, d, t) :
            r \in RideIds, u \in Riders, pt \in Times, o \in Geos, d \in Geos,
            t \in Times}
    \cup {ScheduledRide(r, u, pt, o, d, v, t) :
            r \in RideIds, u \in Riders, pt \in Times, o \in Geos, d \in Geos,
            v \in Vins, t \in Times}
    \cup {InProgressRide(r, u, o, d, t, v, pt, pa) :
            r \in RideIds, u \in Riders, o \in Geos, d \in Geos, t \in Times,
            v \in Vins, pt \in Times, pa \in Times}
    \cup {CancelledRequestedRide(r, u, pt, o, d, t) :
            r \in RideIds, u \in Riders, pt \in Times, o \in Geos, d \in Geos,
            t \in Times}
    \cup {CancelledScheduledRide(r, u, pt, o, d, v, t, c) :
            r \in RideIds, u \in Riders, pt \in Times, o \in Geos, d \in Geos,
            v \in Vins, t \in Times, c \in Times}
    \cup {CompletedRide(r, u, pt, o, d, v, pa, da) :
            r \in RideIds, u \in Riders, pt \in Times, o \in Geos, d \in Geos,
            v \in Vins, pa \in Times, da \in Times}

\* ---------------------------------------------------------------------
\* conversions.py: data-transfer objects.  A DTO is a record whose "type"
\* is the DTO class; str(uuid), Vin.value and their parsers are inverse
\* on well-formed ids, so a DTO carries the id itself; one field stands
\* for a (latitude, longitude) pair.
\* ---------------------------------------------------------------------
\* type(command).to_domain(command) for the vehicle command DTO classes
VehicleCommandDTO_to_domain(instance) ==
    CASE instance.type = "AddVehicleCommandDTO" ->
            AddVehicle(instance.vin, instance.owner)
      [] instance.type = "MakeVehicleAvailableCommandDTO" ->
            MakeVehicleAvailable(instance.vin)
      [] instance.type = "MarkVehicleOccupiedCommandDTO" ->
            MarkVehicleOccupied(instance.vin)
      [] instance.type = "MarkVehicleUnoccupiedCommandDTO" ->
            MarkVehicleUnoccupied(instance.vin)
      [] instance.type = "RequestVehicleReturnCommandDTO" ->
            RequestVehicleReturn(instance.vin)
      [] instance.type = "ConfirmVehicleReturnCommandDTO" ->
            ConfirmVehicleReturn(instance.vin)
      [] instance.type = "RemoveVehicleCommandDTO" ->
            RemoveVehicle(instance.vin, instance.owner)

\* VEHICLE_COMMAND_DOMAIN_TO_DTO_MAP[type(command)].from_domain(command)
VehicleCommandDTO_from_domain(instance) ==
    IF instance.type \in {"AddVehicle", "RemoveVehicle"}
    THEN [type |-> instance.type \o "CommandDTO", owner |-> instance.owner,
          vin |-> instance.vin]
    ELSE [type |-> instance.type \o "CommandDTO", vin |-> instance.vin]

\* type(event).to_domain(event) for the vehicle event DTO classes
VehicleEventDTO_to_domain(instance) ==
    CASE instance.type = "VehicleAddedEventDTO" ->
            VehicleAdded(instance.vin, instance.owner)
      [] instance.type = "VehicleAvailableEventDTO" ->
            VehicleAvailable(instance.vin, instance.available_at)
      [] instance.type = "VehicleOccupiedEventDTO" ->
            VehicleOccupied(instance.vin, instance.occupied_at)
      [] instance.type = "VehicleReturnRequestedEventDTO" ->
            VehicleReturnRequested(instance.vin, instance.return_requested_at)
      [] instance.type = "VehicleReturningEventDTO" ->
            VehicleReturning(instance.vin, instance.returning_at)
      [] instance.type = "VehicleReturnedEventDTO" ->
            VehicleReturned(instance.vin, instance.returned_at)
      [] instance.type = "VehicleRemovedEventDTO" ->
            VehicleRemoved(instance.vin, instance.owner, instance.removed_at)

\* VEHICLE_EVENT_DOMAIN_TO_DTO_MAP[type(event)].from_domain(event): the
\* map has every vehicle event class; each DTO copies the event's fields.
VehicleEventDTO_from_domain(instance) ==
    CASE instance.type = "VehicleAdded" ->
            [type |-> "VehicleAddedEventDTO", owner |-> instance.owner,
             vin |-> instance.vin]
      [] instance.type = "VehicleAvailable" ->
            [type |-> "VehicleAvailableEventDTO", vin |-> instance.vin,
             available_at |-> instance.available_at]
      [] instance.type = "VehicleOccupied" ->
            [type |-> "VehicleOccupiedEventDTO", vin |-> instance.vin,
             occupied_at |-> instance.occupied_at]
      [] instance.type = "VehicleReturnRequested" ->
            [type |-> "VehicleReturnRequestedEventDTO", vin |-> instance.vin,
             return_requested_at |-> instance.return_requested_at]
      [] instance.type = "VehicleReturning" ->
            [type |-> "VehicleReturningEventDTO", vin |-> instance.vin,
             returning_at |-> instance.returning_at]
      [] instance.type = "VehicleReturned" ->
            [type |-> "VehicleReturnedEventDTO", vin |-> instance.vin,
             returned_at |-> instance.returned_at]
      [] instance.type = "VehicleRemoved" ->
            [type |-> "VehicleRemovedEventDTO", owner |-> instance.owner,
             vin |-> instance.vin, removed_at |-> instance.removed_at]

InitialVehicleStateDTO == [type |-> "InitialVehicleStateDTO"]

VehicleDTO(vin, owner, status) ==
    [type |-> "VehicleDTO", vin |-> vin, owner |-> owner, status |-> status]

VehicleDTO_from_domain(instance) ==
    LET status ==
          CASE instance.type = "InventoryVehicle" -> "InInventory"
            [] instance.type = "AvailableVehicle" -> "Available"
            [] instance.type = "OccupiedVehicle" -> "Occupied"
            [] instance.type = "OccupiedReturningVehicle" -> "OccupiedReturning"
            [] instance.type = "ReturningVehicle" -> "Returning"
            [] OTHER -> "UNRECOGNIZED"
    IN  IF Vehicle_vin(instance).raised # "none"
        THEN [raised |-> Vehicle_vin(instance).raised, value |-> None]
        ELSE [raised |-> "none",
              value |-> VehicleDTO(instance.vin, instance.owner, status)]

VehicleDTO_to_domain(instance) ==
    CASE instance.status = "InInventory" ->
            [raised |-> "none",
             value |-> InventoryVehicle(instance.vin, instance.owner)]
      [] instance.status = "Available" ->
            [raised |-> "none",
             value |-> AvailableVehicle(instance.vin, instance.owner)]
      [] instance.status = "Occupied" ->
            [raised |-> "none",
             value |-> OccupiedVehicle(instance.vin, instance.owner)]
      [] instance.status = "OccupiedReturning" ->
            [raised |-> "none",
             value |-> OccupiedReturningVehicle(instance.vin, instance.owner)]
      [] instance.status = "Returning" ->
            [raised |-> "none",
             value |-> ReturningVehicle(instance.vin, instance.owner)]
      [] OTHER -> [raised |-> "ValueError", value |-> None]

\* The None of a read model's optional field that holds a DTO.
NoDTO == [type |-> "NoneType"]

VehicleReadModelDTO(initial, vehicle_dto) ==
    [type |-> "VehicleReadModelDTO", initial |-> initial,
     vehicle |-> vehicle_dto]

VehicleReadModelDTO_from_domain(instance) ==
    IF instance.type = "InitialVehicleState"
    THEN [raised |-> "none",
          value |-> VehicleReadModelDTO(InitialVehicleStateDTO, NoDTO)]
    ELSE LET dto == VehicleDTO_from_domain(instance) IN
         IF dto.raised # "none" THEN dto
         ELSE [raised |-> "none",
               value |-> VehicleReadModelDTO(NoDTO, dto.value)]

VehicleReadModelDTO_to_domain(instance) ==
    IF instance.initial.type # "NoneType"
    THEN [raised |-> "none", value |-> InitialVehicleState]
    ELSE IF instance.vehicle.type # "NoneType"
    THEN VehicleDTO_to_domain(instance.vehicle)
    ELSE [raised |-> "ValueError", value |-> None]

\* type(state).to_domain(state) for the vehicle read-model DTO classes
IVehicleDTO_to_domain(instance) ==
    IF instance.type = "InitialVehicleStateDTO"
    THEN [raised |-> "none", value |-> InitialVehicleState]
    ELSE IF instance.type = "VehicleReadModelDTO"
    THEN VehicleReadModelDTO_to_domain(instance)
    ELSE VehicleDTO_to_domain(instance)

\* The DTO class the map gives for a vehicle state class; a class that is
\* not a key raises KeyError.
VEHICLE_READ_MODEL_DOMAIN_TO_DTO_MAP(stateType) ==
    CASE stateType = "InitialVehicleState" -> "InitialVehicleStateDTO"
      [] stateType = "InventoryVehicle" -> "VehicleDTO"
      [] stateType = "AvailableVehicle" -> "VehicleDTO"
      [] OTHER -> "KeyError"

\* type(command).to_domain(command) for the ride command DTO classes;
\* every to_domain passes its arguments by keyword.
RideCommandDTO_to_domain(instance) ==
    CASE instance.type = "RequestRideCommandDTO" ->
            RequestRide(instance.rider, instance.origin, instance.destination,
                        instance.pickup_time)
      [] instance.type = "ScheduleRideCommandDTO" ->
            ScheduleRide(instance.ride, instance.vin, instance.pickup_time)
      [] instance.type = "ConfirmPickupCommandDTO" ->
            ConfirmPickup(instance.ride, instance.vin, instance.rider,
                          instance.pickup_location)
      [] instance.type = "EndRideCommandDTO" ->
            EndRide(instance.ride, instance.drop_off_location)
      [] instance.type = "CancelRideCommandDTO" -> CancelRide(instance.ride)

\* RideRequestedEventDTO.from_domain reads .latitude and .longitude of the
\* event's origin and destination: a value that is no GeoCoordinates has
\* neither attribute.
RideRequestedEventDTO_from_domain(instance) ==
    IF instance.origin \notin Geos \/ instance.destination \notin Geos
    THEN [raised |-> "AttributeError", value |-> None]
    ELSE [raised |-> "none",
          value |-> [type |-> "RideRequestedEventDTO", ride |-> instance.ride,
                     rider |-> instance.rider, origin |-> instance.origin,
                     destination |-> instance.destination,
                     pickup_time |-> instance.pickup_time,
                     requested_at |-> instance.requested_at]]

RideCancelledEventDTO(ride_, cancelled_at, vin) ==
    [type |-> "RideCancelledEventDTO", ride |-> ride_,
     cancelled_at |-> cancelled_at, vin |-> vin]

\* variant: the cancellation DTO never carries the vin
RideCancelledEventDTO_from_domain_noVin(instance) ==
    IF instance.type \in {"RequestedRideCancelled", "ScheduledRideCancelled"}
    THEN [raised |-> "none",
          value |-> RideCancelledEventDTO(instance.ride, instance.cancelled_at,
                                          None)]
    ELSE [raised |-> "ValueError", value |-> None]

RideCancelledEventDTO_from_domain(instance) ==
    IF instance.type = "RequestedRideCancelled"
    THEN [raised |-> "none",
          value |-> RideCancelledEventDTO(instance.ride, instance.cancelled_at,
                                          None)]
    ELSE IF instance.type = "ScheduledRideCancelled"
    THEN [raised |-> "none",
          value |-> RideCancelledEventDTO(instance.ride, instance.cancelled_at,
                                          instance.vin)]
    ELSE [raised |-> "ValueError", value |-> None]

RideCancelledEventDTO_to_domain(instance) ==
    IF instance.vin = None
    THEN RequestedRideCancelled(instance.ride, instance.cancelled_at)
    ELSE ScheduledRideCancelled(instance.ride, instance.vin,
                                instance.cancelled_at)

\* RIDE_EVENT_DOMAIN_TO_DTO_MAP[type(event)].from_domain(event): the map
\* has every ride event class.
RideEventDTO_from_domain(instance) ==
    CASE instance.type = "RideRequested" ->
            RideRequestedEventDTO_from_domain(instance)
      [] instance.type = "RideScheduled" ->
            [raised |-> "none",
             value |-> [type |-> "RideScheduledEventDTO", ride |-> instance.ride,
                        vin |-> instance.vin,
                        pickup_time |-> instance.pickup_time,
                        scheduled_at |-> instance.scheduled_at]]
      [] instance.type \in {"RequestedRideCancelled", "ScheduledRideCancelled"} ->
            RideCancelledEventDTO_from_domain(instance)
      [] instance.type = "RiderPickedUp" ->
            IF instance.pickup_location \notin Geos
            THEN [raised |-> "AttributeError", value |-> None]
            ELSE [raised |-> "none",
                  value |-> [type |-> "RiderPickedUpEventDTO",
                             ride |-> instance.ride, vin |-> instance.vin,
                             rider |-> instance.rider,
                             pickup_location |-> instance.pickup_location,
                             picked_up_at |-> instance.picked_up_at]]
      [] instance.type = "RiderDroppedOff" ->
            IF instance.drop_off_location \notin Geos
            THEN [raised |-> "AttributeError", value |-> None]
            ELSE [raised |-> "none",
                  value |-> [type |-> "RiderDroppedOffEventDTO",
                             ride |-> instance.ride, vin |-> instance.vin,
                             drop_off_location |-> instance.drop_off_location,
                             dropped_off_at |-> instance.dropped_off_at]]

\* type(event).to_domain(event) for the ride event DTO classes; every
\* to_domain passes its arguments by keyword.
RideEventDTO_to_domain(instance) ==
    CASE instance.type = "RideRequestedEventDTO" ->
            RideRequested(instance.ride, instance.rider, instance.pickup_time,
                          instance.origin, instance.destination,
                          instance.requested_at)
      [] instance.type = "RideScheduledEventDTO" ->
            RideScheduled(instance.ride, instance.vin, instance.pickup_time,
                          instance.scheduled_at)
      [] instance.type = "RideCancelledEventDTO" ->
            RideCancelledEventDTO_to_domain(instance)
      [] instance.type = "RiderPickedUpEventDTO" ->
            RiderPickedUp(instance.ride, instance.vin, instance.rider,
                          instance.pickup_location, instance.picked_up_at)
      [] instance.type = "RiderDroppedOffEventDTO" ->
            RiderDroppedOff(instance.ride, instance.vin,
                            instance.drop_off_location, instance.dropped_off_at)

InitialRideStateDTO == [type |-> "InitialRideStateDTO"]

\* The dataclass fields in their order; the last six default to None.
RideDTO(id, rider, pickup_time, pickup_location, drop_off_location, status, requested_at, vin, scheduled_at, cancelled_at, picked_up_at, dropped_off_at) ==
    [type |-> "RideDTO", id |-> id, rider |-> rider,
     pickup_time |-> pickup_time, pickup_location |-> pickup_location,
     drop_off_location |-> drop_off_location, status |-> status,
     requested_at |-> requested_at, vin |-> vin,
     scheduled_at |-> scheduled_at, cancelled_at |-> cancelled_at,
     picked_up_at |-> picked_up_at, dropped_off_at |-> dropped_off_at]

RideDTO_from_domain(instance) ==
    IF instance.type = "InitialRideState"
    THEN [raised |-> "ValueError", value |-> None]
    ELSE IF instance.pickup_location \notin Geos
            \/ instance.drop_off_location \notin Geos
    THEN [raised |-> "AttributeError", value |-> None]
    ELSE [raised |-> "none", value |->
      CASE instance.type = "RequestedRide" ->
            RideDTO(instance.id, instance.rider, instance.requested_pickup_time,
                    instance.pickup_location, instance.drop_off_location,
                    "Requested", instance.requested_at, None, None, None,
                    None, None)
        [] instance.type = "ScheduledRide" ->
            RideDTO(instance.id, instance.rider, instance.scheduled_pickup_time,
                    instance.pickup_location, instance.drop_off_location,
                    "Scheduled", None, instance.vin, instance.scheduled_at,
                    None, None, None)
        [] instance.type = "InProgressRide" ->
            RideDTO(instance.id, instance.rider, instance.pickup_time,
                    instance.pickup_location, instance.drop_off_location,
                    "InProgress", None, instance.vin, instance.scheduled_at,
                    None, instance.picked_up_at, None)
        [] instance.type = "CompletedRide" ->
            RideDTO(instance.id, instance.rider, instance.pickup_time,
                    instance.pickup_location, instance.drop_off_location,
                    "Completed", None, instance.vin, None, None,
                    instance.picked_up_at, instance.dropped_off_at)
        [] instance.type = "CancelledRequestedRide" ->
            RideDTO(instance.id, instance.rider, instance.requested_pickup_time,
                    instance.pickup_location, instance.drop_off_location,
                    "Cancelled", None, None, None, instance.cancelled_at,
                    None, None)
        [] instance.type = "CancelledScheduledRide" ->
            RideDTO(instance.id, instance.rider, instance.scheduled_pickup_time,
                    instance.pickup_location, instance.drop_off_location,
                    "Cancelled", None, instance.vin, instance.scheduled_at,
                    instance.cancelled_at, None, None)]

\* RideDTO.to_domain.  The four branches of the variants that carry a
\* vehicle build value.Vin(instance.vin); vin is declared str | None, and
\* for None the pattern match of Vin.__init__ raises TypeError.
RideDTO_to_domain(instance) ==
    LET Built(domain) ==
            IF instance.vin = None
            THEN [raised |-> "TypeError", value |-> None]
            ELSE [raised |-> "none", value |-> domain]
    IN
    CASE instance.status = "Requested" ->
            [raised |-> "none", value |->
                RequestedRide(instance.id, instance.rider, instance.pickup_time,
                              instance.pickup_location,
                              instance.drop_off_location, instance.requested_at)]
      [] instance.status = "Scheduled" ->
            Built(ScheduledRide(instance.id, instance.rider,
                                instance.pickup_time, instance.pickup_location,
                                instance.drop_off_location, instance.vin,
                                instance.scheduled_at))
      [] instance.status = "InProgress" ->
            Built(InProgressRide(instance.id, instance.rider,
                                 instance.pickup_location,
                                 instance.drop_off_location,
                                 instance.scheduled_at, instance.vin,
                                 instance.pickup_time, instance.picked_up_at))
      [] instance.status = "Completed" ->
            Built(CompletedRide(instance.id, instance.rider,
                                instance.pickup_time, instance.pickup_location,
                                instance.drop_off_location, instance.vin,
                                instance.picked_up_at, instance.dropped_off_at))
      [] instance.status = "Cancelled" ->
            IF instance.scheduled_at = None
            THEN [raised |-> "none", value |->
                    CancelledRequestedRide(instance.id, instance.rider,
                                           instance.pickup_time,
                                           instance.pickup_location,
                                           instance.drop_off_location,
                                           instance.cancelled_at)]
            ELSE Built(CancelledScheduledRide(instance.id, instance.rider,
                                              instance.pickup_time,
                                              instance.pickup_location,
                                              instance.drop_off_location,
                                              instance.vin,
                                              instance.scheduled_at,
                                              instance.cancelled_at))
      [] OTHER -> [raised |-> "ValueError", value |-> None]

RideReadModelDTO(initial, ride_dto) ==
    [type |-> "RideReadModelDTO", initial |-> initial, ride |-> ride_dto]

RideReadModelDTO_from_domain(instance) ==
    IF instance.type = "InitialRideState"
    THEN [raised |-> "none",
          value |-> RideReadModelDTO(InitialRideStateDTO, NoDTO)]
    ELSE LET dto == RideDTO_from_domain(instance) IN
         IF dto.raised # "none" THEN dto
         ELSE [raised |-> "none", value |-> RideReadModelDTO(NoDTO, dto.value)]

RideReadModelDTO_to_domain(instance) ==
    IF instance.initial.type # "NoneType"
    THEN [raised |-> "none", value |-> InitialRideState]
    ELSE IF instance.ride.type # "NoneType"
    THEN RideDTO_to_domain(instance.ride)
    ELSE [raised |-> "ValueError", value |-> None]

\* type(state).to_domain(state) for the ride read-model DTO classes
IRideDTO_to_domain(instance) ==
    IF instance.type = "InitialRideStateDTO"
    THEN [raised |-> "none", value |-> InitialRideState]
    ELSE IF instance.type = "RideReadModelDTO"
    THEN RideReadModelDTO_to_domain(instance)
    ELSE RideDTO_to_domain(instance)

\* The DTO class the map gives for a ride state class; a class that is
\* not a key raises KeyError.
RIDE_READ_MODEL_DOMAIN_TO_DTO_MAP(stateType) ==
    CASE stateType = "InitialRideState" -> "InitialRideStateDTO"
      [] stateType = "RequestedRide" -> "RideDTO"
      [] OTHER -> "KeyError"

\* ---------------------------------------------------------------------
\* domain_functions.py: the dispatch facade over DTOs
\* ---------------------------------------------------------------------
\* isinstance(command, conversions.VehicleCommandDTO)
IsVehicleCommandDTO(command) ==
    command.type \in {"AddVehicleCommandDTO", "MakeVehicleAvailableCommandDTO",
                      "MarkVehicleOccupiedCommandDTO",
                      "MarkVehicleUnoccupiedCommandDTO",
                      "RequestVehicleReturnCommandDTO",
                      "ConfirmVehicleReturnCommandDTO",
                      "RemoveVehicleCommandDTO"}

\* isinstance(state, conversions.IVehicleDTO)
IsVehicleDTO(state) ==
    state.type \in {"InitialVehicleStateDTO", "VehicleDTO", "VehicleReadModelDTO"}

\* The body of decide's try block: the events' DTOs, or the first
\* exception raised on the way.
decide_try(command, state, new_id, now) ==
    LET domain_command ==
            IF IsVehicleCommandDTO(command)
            THEN VehicleCommandDTO_to_domain(command)
            ELSE RideCommandDTO_to_domain(command)
        domain_state ==
            IF IsVehicleDTO(state) THEN IVehicleDTO_to_domain(state)
            ELSE IRideDTO_to_domain(state)
        domain_events ==
            IF IsVehicleCommandDTO(command)
            THEN VehicleCommand_decide(domain_command, domain_state.value, now)
            ELSE RideCommand_decide(domain_command, domain_state.value, new_id,
                                    now)
        dtos ==
            [i \in 1..Len(domain_events.events) |->
                IF IsVehicleCommandDTO(command)
                THEN [raised |-> "none",
                      value |-> VehicleEventDTO_from_domain(
                                    domain_events.events[i])]
                ELSE RideEventDTO_from_domain(domain_events.events[i])]
    IN  IF domain_state.raised # "none"
        THEN [raised |-> domain_state.raised, events |-> <<>>]
        ELSE IF domain_events.raised # "none"
        THEN [raised |-> domain_events.raised, events |-> <<>>]
        ELSE IF \E i \in 1..Len(dtos) : dtos[i].raised # "none"
        THEN [raised |-> dtos[CHOOSE i \in 1..Len(dtos) :
                                 /\ dtos[i].raised # "none"
                                 /\ \A j \in 1..(i - 1) :
                                        dtos[j].raised = "none"].raised,
              events |-> <<>>]
        ELSE [raised |-> "none",
              events |-> [i \in 1..Len(dtos) |-> dtos[i].value]]

\* variant: only the aggregates' command errors are wrapped
decide_commandErrorsOnly(command, state, new_id, now) ==
    IF decide_try(command, state, new_id, now).raised
          \in {"RideCommandError", "VehicleCommandError"}
    THEN [raised |-> "CommandError", events |-> <<>>]
    ELSE decide_try(command, state, new_id, now)

\* except Exception as error: raise CommandError(...) from error
decide(command, state, new_id, now) ==
    IF decide_try(command, state, new_id, now).raised # "none"
    THEN [raised |-> "CommandError", events |-> <<>>]
    ELSE decide_try(command, state, new_id, now)

\* The body of evolve's try block.
evolve_try(state, event) ==
    LET domain_state ==
            IF IsVehicleDTO(state) THEN IVehicleDTO_to_domain(state)
            ELSE IRideDTO_to_domain(state)
        domain_event ==
            IF IsVehicleDTO(state) THEN VehicleEventDTO_to_domain(event)
            ELSE RideEventDTO_to_domain(event)
        evolved_domain_state ==
            IF IsVehicleDTO(state)
            THEN Vehicle_evolve(domain_state.value, domain_event)
            ELSE Ride_evolve(domain_state.value, domain_event)
        dto_class ==
            IF IsVehicleDTO(state)
            THEN VEHICLE_READ_MODEL_DOMAIN_TO_DTO_MAP(evolved_domain_state.type)
            ELSE RIDE_READ_MODEL_DOMAIN_TO_DTO_MAP(evolved_domain_state.type)
    IN  IF domain_state.raised # "none"
        THEN [raised |-> domain_state.raised, value |-> None]
        ELSE CASE dto_class = "KeyError" ->
                    [raised |-> "KeyError", value |-> None]
               [] dto_class = "InitialVehicleStateDTO" ->
                    [raised |-> "none", value |-> InitialVehicleStateDTO]
               [] dto_class = "VehicleDTO" ->
                    VehicleDTO_from_domain(evolved_domain_state)
               [] dto_class = "InitialRideStateDTO" ->
                    [raised |-> "none", value |-> InitialRideStateDTO]
               [] dto_class = "RideDTO" ->
                    RideDTO_from_domain(evolved_domain_state)

\* except Exception as error: raise EvolutionError(...) from error
evolve(state, event) ==
    IF evolve_try(state, event).raised # "none"
    THEN [raised |-> "EvolutionError", value |-> None]
    ELSE evolve_try(state, event)

\* variant: a picked-up rider frees the vehicle
react_onPickup(event) ==
    LET domain_event == RideEventDTO_to_domain(event)
        commands ==
            IF domain_event.type = "RideScheduled"
            THEN <<MarkVehicleOccupied(domain_event.vin)>>
            ELSE IF domain_event.type \in {"ScheduledRideCancelled",
                                           "RiderPickedUp", "RiderDroppedOff"}
            THEN <<MarkVehicleUnoccupied(domain_event.vin)>>
            ELSE <<>>
    IN  [raised |-> "none",
         value |-> [i \in 1..Len(commands) |->
                        VehicleCommandDTO_from_domain(commands[i])]]

\* variant: a picked-up rider frees the vehicle as well
react_commands_onPickup(domain_event) ==
    IF domain_event.type = "RideScheduled"
    THEN <<MarkVehicleOccupied(domain_event.vin)>>
    ELSE IF domain_event.type \in {"ScheduledRideCancelled", "RiderPickedUp",
                                   "RiderDroppedOff"}
    THEN <<MarkVehicleUnoccupied(domain_event.vin)>>
    ELSE <<>>

\* The isinstance chain of react: the domain commands for a domain event.
react_commands(domain_event) ==
    IF domain_event.type = "RideScheduled"
    THEN <<MarkVehicleOccupied(domain_event.vin)>>
    ELSE IF domain_event.type = "ScheduledRideCancelled"
    THEN <<MarkVehicleUnoccupied(domain_event.vin)>>
    ELSE IF domain_event.type = "RiderDroppedOff"
    THEN <<MarkVehicleUnoccupied(domain_event.vin)>>
    ELSE <<>>

\* The saga: the vehicle commands a ride event calls for.
react(event) ==
    LET domain_event == RideEventDTO_to_domain(event)
        commands == react_commands(domain_event)
    IN  [raised |-> "none",
         value |-> [i \in 1..Len(commands) |->
                        VehicleCommandDTO_from_domain(commands[i])]]

\* ---------------------------------------------------------------------
\* Inputs of the facade: every well-formed DTO
\* ---------------------------------------------------------------------
VehicleCommandDTOs == {VehicleCommandDTO_from_domain(c) : c \in VehicleCommands}

VehicleEventDTOs == {VehicleEventDTO_from_domain(e) : e \in VehicleEvents}

VehicleStatuses ==
    {"InInventory", "Available", "Occupied", "OccupiedReturning", "Returning"}

VehicleStateDTOs ==
    {InitialVehicleStateDTO}
    \cup {VehicleDTO(v, u, s) : v \in Vins, u \in Owners, s \in VehicleStatuses}

RideCommandDTOs ==
    {[type |-> "RequestRideCommandDTO", rider |-> u, origin |-> o,
      destination |-> d, pickup_time |-> t] :
        u \in Riders, o \in Geos, d \in Geos, t \in Times}
    \cup {[type |-> "ScheduleRideCommandDTO", ride |-> r, vin |-> v,
           pickup_time |-> t] : r \in RideIds, v \in Vins, t \in Times}
    \cup {[type |-> "ConfirmPickupCommandDTO", ride |-> r, vin |-> v,
           rider |-> u, pickup_location |-> g] :
            r \in RideIds, v \in Vins, u \in Riders, g \in Geos}
    \cup {[type |-> "EndRideCommandDTO", ride |-> r, drop_off_location |-> g] :
            r \in RideIds, g \in Geos}
    \cup {[type |-> "CancelRideCommandDTO", ride |-> r] : r \in RideIds}

RideEventDTOs == {RideEventDTO_from_domain(e).value : e \in RideEvents}

RideStateDTOs ==
    {InitialRideStateDTO}
    \cup {RideDTO_from_domain(s).value : s \in RideStates \ {InitialRideState}}

\* ---------------------------------------------------------------------
\* State machine
\* ---------------------------------------------------------------------
NoOp == [kind |-> "none"]

\* RequestRide.decide draws RideId.random_uuid(); no other decide does.
NewIdsFor(command) ==
    IF command.type = "RequestRide" THEN RideIds ELSE {None}

\* What a ride's history keeps of an event: its class, its ride id, and
\* its rider and vin when the class has them.
Logged(event) ==
    [type |-> event.type, ride |-> event.ride,
     rider |-> IF event.type \in {"RideRequested", "RiderPickedUp"}
               THEN event.rider ELSE None,
     vin |-> IF event.type \in {"RideScheduled", "ScheduledRideCancelled",
                                "RiderPickedUp", "RiderDroppedOff"}
             THEN event.vin ELSE None]

Logs(events) == [i \in 1..Len(events) |-> Logged(events[i])]

\* Folding a list of events, in order, with evolve
RECURSIVE FoldRide(_, _)
FoldRide(state, events) ==
    IF events = <<>> THEN state
    ELSE FoldRide(Ride_evolve(state, Head(events)), Tail(events))

RECURSIVE FoldVehicle(_, _)
FoldVehicle(state, events) ==
    IF events = <<>> THEN state
    ELSE FoldVehicle(Vehicle_evolve(state, Head(events)), Tail(events))

\* What is kept of a folded ride event: its class, its ride id and the
\* class of the state it was folded into.
Folded(event, state) ==
    [kind |-> "evolve", type |-> event.type, ride |-> event.ride,
     from |-> state.type]

Init ==
    /\ ride = InitialRideState
    /\ rideOp = NoOp
    /\ rideCreator = None
    /\ vehicle = InitialVehicleState
    /\ vehicleOp = NoOp
    /\ clock = 0
    /\ history = <<>>
    /\ readModel = InitialVehicleStateDTO
    /\ published = <<>>
    /\ facadeOp = NoOp
    /\ valueOp = NoOp
    /\ ridesTable = [r \in RideIds |-> InitialRideStateDTO]
    /\ vehiclesTable = [v \in Vins |-> InitialVehicleStateDTO]
    /\ vehicleTopic = <<>>
    /\ pipeOp = NoOp
    /\ rideStream = [r \in RideIds |-> InitialRideState]

\* ---- one ride: folding events -----------------------------------------
\* A ride event (any event, in any order, duplicates included) is folded
\* into the current ride state.  rideCreator remembers the ride id of the
\* first RideRequested of the folded history.
EvolveRide ==
    \E event \in RideEvents :
        /\ ride' = Ride_evolve(ride, event)
        /\ rideOp' = Folded(event, ride)
        /\ rideCreator' = IF rideCreator = None /\ event.type = "RideRequested"
                          THEN event.ride ELSE rideCreator
        /\ UNCHANGED <<vehicleVars, clock, history, facadeVars, valueOp, pipeVars>>

\* The sequential loop for one ride: a command is decided against the
\* current state; the loop carries on with the state object that decide
\* was given, as decide left it; the events decide returned (none when it
\* raised) are appended to the ride's history and folded in the order
\* produced.  A decide that raises has not read the clock.
HandleRide ==
    \E command \in RideCommands :
    \E new_id \in NewIdsFor(command), now \in clock..MaxClock :
        LET result == RideCommand_decide(command, ride, new_id, now) IN
        /\ rideOp' = [kind |-> "handle", type |-> command.type,
                      from |-> ride.type, raised |-> result.raised]
        /\ UNCHANGED <<vehicleVars, facadeVars, valueOp, pipeVars>>
        /\ history' = history \o Logs(result.events)
        /\ ride' = FoldRide(result.state, result.events)
        /\ IF result.raised = "none"
           THEN /\ clock' = now
                /\ rideCreator' =
                     IF rideCreator = None
                        /\ result.events[1].type = "RideRequested"
                     THEN result.events[1].ride ELSE rideCreator
           ELSE UNCHANGED <<rideCreator, clock>>

NextRide == EvolveRide

SpecRide == Init /\ [][NextRide]_vars

\* ---- one ride: the full ordered sequence -----------------------------
\* The classes of the events of a ride that runs to completion, in order.
StepTypes ==
    <<"RideRequested", "RideScheduled", "RiderPickedUp", "RiderDroppedOff">>

\* The next event of the sequence, with any field values, is folded into
\* the ride and logged.
FoldStep ==
    /\ Len(history) < Len(StepTypes)
    /\ \E event \in {e \in RideEvents : e.type = StepTypes[Len(history) + 1]} :
        /\ ride' = Ride_evolve(ride, event)
        /\ history' = Append(history, Logged(event))
        /\ rideOp' = Folded(event, ride)
        /\ UNCHANGED <<rideCreator, vehicleVars, clock, facadeVars, valueOp, pipeVars>>

NextRideFold == FoldStep

SpecRideFold == Init /\ [][NextRideFold]_vars

NextRideLoop == HandleRide

SpecRideLoop == Init /\ [][NextRideLoop]_vars

\* ---- ride decide as a function of (command, state) ---------------------
InitRideDecide ==
    /\ ride \in RideStates
    /\ rideOp = NoOp
    /\ rideCreator = None
    /\ vehicle = InitialVehicleState
    /\ vehicleOp = NoOp
    /\ clock \in 0..MaxClock
    /\ history = <<>>
    /\ readModel = InitialVehicleStateDTO
    /\ published = <<>>
    /\ facadeOp = NoOp
    /\ valueOp = NoOp
    /\ ridesTable = [r \in RideIds |-> InitialRideStateDTO]
    /\ vehiclesTable = [v \in Vins |-> InitialVehicleStateDTO]
    /\ vehicleTopic = <<>>
    /\ pipeOp = NoOp
    /\ rideStream = [r \in RideIds |-> InitialRideState]

\* One decide call against the drawn state; decide leaves the state alone.
DecideRide ==
    /\ rideOp = NoOp
    /\ \E command \in RideCommands, new_id \in RideIds, now \in clock..MaxClock :
        /\ rideOp' = [kind |-> "decide", command |-> command,
                      result |-> RideCommand_decide(command, ride, new_id, now)]
        /\ clock' = now
        /\ UNCHANGED <<ride, rideCreator, vehicleVars, history, facadeVars, valueOp, pipeVars>>

NextRideDecide == DecideRide

SpecRideDecide == InitRideDecide /\ [][NextRideDecide]_vars

\* ---- one vehicle --------------------------------------------------------
\* A vehicle command is decided against the current vehicle state.
DecideVehicle ==
    \E command \in VehicleCommands, now \in clock..MaxClock :
        /\ vehicleOp' = [kind |-> "decide", command |-> command,
                         result |-> VehicleCommand_decide(command, vehicle, now)]
        /\ clock' = now
        /\ UNCHANGED <<vehicle, rideVars, history, facadeVars, valueOp, pipeVars>>

\* A vehicle event (any event, in any order) is folded into the state.
EvolveVehicle ==
    \E event \in VehicleEvents :
        /\ vehicle' = Vehicle_evolve(vehicle, event)
        /\ vehicleOp' = [kind |-> "evolve", event |-> event,
                         from |-> vehicle.type]
        /\ UNCHANGED <<rideVars, clock, history, facadeVars, valueOp, pipeVars>>

NextVehicle == DecideVehicle \/ EvolveVehicle

SpecVehicle == Init /\ [][NextVehicle]_vars

\* ---- the sequential loop, for one aggregate ------------------------------
\* The sequential loop for one vehicle: decide, carry on with the state
\* object as decide left it, append the events decide returned (none when
\* it raised) to the vehicle's history and fold them.
HandleVehicle ==
    /\ Len(history) < MaxLog
    /\ \E command \in VehicleCommands, now \in clock..MaxClock :
        LET result == VehicleCommand_decide(command, vehicle, now) IN
        /\ clock' = now
        /\ vehicleOp' = [kind |-> "handle", command |-> command,
                         from |-> vehicle, raised |-> result.raised]
        /\ UNCHANGED <<rideVars, facadeVars, valueOp, pipeVars>>
        /\ history' = history \o result.events
        /\ vehicle' = FoldVehicle(result.state, result.events)

\* The loop is run for one aggregate: the ride, or the vehicle.
NextLoop ==
    \/ vehicleOp = NoOp /\ HandleRide
    \/ rideOp = NoOp /\ HandleVehicle

SpecLoop == Init /\ [][NextLoop]_vars

\* ---- the loop for a vehicle that is occupied ----------------------------
\* The loop is entered with a vehicle that carries a rider.
InitOccupiedVehicle ==
    /\ ride = InitialRideState
    /\ rideOp = NoOp
    /\ rideCreator = None
    /\ vehicle \in {OccupiedVehicle(v, u) : v \in Vins, u \in Owners}
    /\ vehicleOp = NoOp
    /\ clock = 0
    /\ history = <<>>
    /\ readModel = InitialVehicleStateDTO
    /\ published = <<>>
    /\ facadeOp = NoOp
    /\ valueOp = NoOp
    /\ ridesTable = [r \in RideIds |-> InitialRideStateDTO]
    /\ vehiclesTable = [v \in Vins |-> InitialVehicleStateDTO]
    /\ vehicleTopic = <<>>
    /\ pipeOp = NoOp
    /\ rideStream = [r \in RideIds |-> InitialRideState]

NextVehicleLoop == HandleVehicle

SpecVehicleLoop == InitOccupiedVehicle /\ [][NextVehicleLoop]_vars

\* ---- the conversions: an object is encoded, then decoded ----------------
\* The kinds of domain objects that cross the transport as DTOs, and the
\* well-typed instances of each kind.
InstancesOf(kind) ==
    CASE kind = "RideEvent" -> RideEvents
      [] kind = "VehicleEvent" -> VehicleEvents
      [] kind = "VehicleCommand" -> VehicleCommands

\* MAP[type(instance)].from_domain(instance)
from_domain(kind, instance) ==
    CASE kind = "RideEvent" -> RideEventDTO_from_domain(instance)
      [] kind = "VehicleEvent" ->
            [raised |-> "none", value |-> VehicleEventDTO_from_domain(instance)]
      [] kind = "VehicleCommand" ->
            [raised |-> "none",
             value |-> VehicleCommandDTO_from_domain(instance)]

\* type(dto).to_domain(dto)
to_domain(kind, dto) ==
    CASE kind = "RideEvent" -> RideEventDTO_to_domain(dto)
      [] kind = "VehicleEvent" -> VehicleEventDTO_to_domain(dto)
      [] kind = "VehicleCommand" -> VehicleCommandDTO_to_domain(dto)

\* A domain object is encoded to its DTO.
Encode ==
    /\ facadeOp = NoOp
    /\ \E kind \in {"RideEvent", "VehicleEvent", "VehicleCommand"} :
       \E instance \in InstancesOf(kind) :
        /\ facadeOp' = [kind |-> "encoded", of |-> kind, instance |-> instance,
                        dto |-> from_domain(kind, instance)]
        /\ UNCHANGED <<rideVars, vehicleVars, clock, history, readModel, published, valueOp, pipeVars>>

\* The DTO that was encoded is decoded.
Decode ==
    /\ facadeOp.kind = "encoded"
    /\ facadeOp.dto.raised = "none"
    /\ facadeOp' = [kind |-> "decoded", of |-> facadeOp.of,
                    instance |-> facadeOp.instance, dto |-> facadeOp.dto,
                    back |-> to_domain(facadeOp.of, facadeOp.dto.value)]
    /\ UNCHANGED <<rideVars, vehicleVars, clock, history, readModel, published, valueOp, pipeVars>>

NextCodec == Encode \/ Decode

SpecCodec == Init /\ [][NextCodec]_vars

\* ---- the value objects: one construction --------------------------------
NewGeoCoordinates ==
    /\ valueOp = NoOp
    /\ \E latitude \in Latitudes, longitude \in Longitudes :
        valueOp' = [kind |-> "GeoCoordinates", latitude |-> latitude,
                    longitude |-> longitude,
                    result |-> GeoCoordinates(latitude, longitude)]
    /\ UNCHANGED <<rideVars, vehicleVars, clock, history, facadeVars, pipeVars>>

NewVin ==
    /\ valueOp = NoOp
    /\ \E value \in VinStrs :
        valueOp' = [kind |-> "Vin", value |-> value, result |-> Vin(value)]
    /\ UNCHANGED <<rideVars, vehicleVars, clock, history, facadeVars, pipeVars>>

NextValue == NewGeoCoordinates \/ NewVin

SpecValue == Init /\ [][NextValue]_vars

\* ---- reading an attribute of a state ---------------------------------------
\* variant: the initial ride state has an id attribute holding None
Ride_id_none(state) ==
    IF state.type = "InitialRideState"
    THEN [raised |-> "none", value |-> None]
    ELSE [raised |-> "none", value |-> state.id]

\* state.id: the stored field, or the exception of the InitialRideState
\* property
Ride_id(state) ==
    IF state.type = "InitialRideState"
    THEN [raised |-> "IllegalStateError", value |-> None]
    ELSE [raised |-> "none", value |-> state.id]

VehicleStates ==
    {InitialVehicleState}
    \cup {InventoryVehicle(v, u) : v \in Vins, u \in Owners}
    \cup {AvailableVehicle(v, u) : v \in Vins, u \in Owners}
    \cup {OccupiedVehicle(v, u) : v \in Vins, u \in Owners}
    \cup {OccupiedReturningVehicle(v, u) : v \in Vins, u \in Owners}
    \cup {ReturningVehicle(v, u) : v \in Vins, u \in Owners}

InitAttr ==
    /\ ride \in RideStates
    /\ vehicle \in VehicleStates
    /\ ride = InitialRideState \/ vehicle = InitialVehicleState
    /\ rideOp = NoOp
    /\ rideCreator = None
    /\ vehicleOp = NoOp
    /\ clock = 0
    /\ history = <<>>
    /\ readModel = InitialVehicleStateDTO
    /\ published = <<>>
    /\ facadeOp = NoOp
    /\ valueOp = NoOp
    /\ ridesTable = [r \in RideIds |-> InitialRideStateDTO]
    /\ vehiclesTable = [v \in Vins |-> InitialVehicleStateDTO]
    /\ vehicleTopic = <<>>
    /\ pipeOp = NoOp
    /\ rideStream = [r \in RideIds |-> InitialRideState]

ReadRideId ==
    /\ valueOp = NoOp
    /\ valueOp' = [kind |-> "getattr", name |-> "id", result |-> Ride_id(ride)]
    /\ UNCHANGED <<rideVars, vehicleVars, clock, history, facadeVars, pipeVars>>

ReadVehicleVin ==
    /\ valueOp = NoOp
    /\ valueOp' = [kind |-> "getattr", name |-> "vin",
                   result |-> Vehicle_vin(vehicle)]
    /\ UNCHANGED <<rideVars, vehicleVars, clock, history, facadeVars, pipeVars>>

ReadVehicleOwner ==
    /\ valueOp = NoOp
    /\ valueOp' = [kind |-> "getattr", name |-> "owner",
                   result |-> Vehicle_owner(vehicle)]
    /\ UNCHANGED <<rideVars, vehicleVars, clock, history, facadeVars, pipeVars>>

NextAttr == ReadRideId \/ ReadVehicleVin \/ ReadVehicleOwner

SpecAttr == InitAttr /\ [][NextAttr]_vars

\* ---- an event delivered twice in a row -----------------------------------
DeliverRideTwice ==
    /\ valueOp = NoOp
    /\ \E event \in RideEvents :
        LET once == Ride_evolve(ride, event) IN
        /\ ride' = Ride_evolve(once, event)
        /\ valueOp' = [kind |-> "twice", from |-> ride.type, once |-> once,
                       twice |-> Ride_evolve(once, event)]
    /\ UNCHANGED <<rideOp, rideCreator, vehicleVars, clock, history, facadeVars, pipeVars>>

DeliverVehicleTwice ==
    /\ valueOp = NoOp
    /\ \E event \in VehicleEvents :
        LET once == Vehicle_evolve(vehicle, event) IN
        /\ vehicle' = Vehicle_evolve(once, event)
        /\ valueOp' = [kind |-> "twice", from |-> vehicle.type, once |-> once,
                       twice |-> Vehicle_evolve(once, event)]
    /\ UNCHANGED <<rideVars, vehicleOp, clock, history, facadeVars, pipeVars>>

NextTwice == DeliverRideTwice \/ DeliverVehicleTwice

SpecTwice == InitAttr /\ [][NextTwice]_vars

\* ---- adapters/kafka.py: the two agents and their tables -------------------
\* event.id: the attribute of that name, or Python's AttributeError; the
\* ride event DTO classes have the fields ride, rider, vin, ... and no id.
RideEventDTO_id(event) ==
    IF "id" \in DOMAIN event
    THEN [raised |-> "none", value |-> event["id"]]
    ELSE [raised |-> "AttributeError", value |-> None]

\* the events of several decide calls, in the order sent
RECURSIVE Concat(_)
Concat(seqs) == IF seqs = <<>> THEN <<>> ELSE Head(seqs) \o Concat(Tail(seqs))

\* for command in commands: decide against vehicles_table[command.vin] and
\* send the events; the first exception ends the loop and the handler.  The
\* loop does not write vehicles_table, so every decide reads the same table;
\* vehicle_events[i] is what decide gives for commands[i].
SendUntilRaised(commands, vehicles_table, vehicle_events) ==
    LET failing == {i \in 1..Len(commands) : vehicle_events[i].raised # "none"}
        last == IF failing = {} THEN Len(commands)
                ELSE CHOOSE i \in failing : \A j \in failing : i <= j
        completed == IF failing = {} THEN last ELSE last - 1
    IN  [raised |-> IF failing = {} THEN "none" ELSE vehicle_events[last].raised,
         decided |-> [i \in 1..last |->
                         [command |-> commands[i],
                          state |-> vehicles_table[commands[i].vin]]],
         sent |-> Concat([i \in 1..completed |-> vehicle_events[i].events])]

DecideAndSend(commands, vehicles_table, now) ==
    SendUntilRaised(commands, vehicles_table,
                    [i \in 1..Len(commands) |->
                        decide(commands[i], vehicles_table[commands[i].vin],
                               None, now)])

\* What process_ride_events leaves for one event, given the values of its
\* statements: the exception that ends it, the rides table, the (command,
\* state) pairs decided and the vehicle events sent.
RideEventOutcome(ride_id, rides_table, new_state, commands, loop) ==
    IF ride_id.raised # "none"
    THEN [raised |-> ride_id.raised, rides_table |-> rides_table,
          decided |-> <<>>, sent |-> <<>>]
    ELSE IF new_state.raised # "none"
    THEN [raised |-> new_state.raised, rides_table |-> rides_table,
          decided |-> <<>>, sent |-> <<>>]
    ELSE IF commands.raised # "none"
    THEN [raised |-> commands.raised,
          rides_table |-> [rides_table EXCEPT ![ride_id.value] = new_state.value],
          decided |-> <<>>, sent |-> <<>>]
    ELSE [raised |-> loop.raised,
          rides_table |-> [rides_table EXCEPT ![ride_id.value] = new_state.value],
          decided |-> loop.decided, sent |-> loop.sent]

\* The body of process_ride_events for one event: ride_id = event.id, the
\* fold into rides_table, react, and the loop over the commands.
process_ride_events(event, rides_table, vehicles_table, now) ==
    RideEventOutcome(RideEventDTO_id(event), rides_table,
                     evolve(rides_table[RideEventDTO_id(event).value], event),
                     react(event),
                     DecideAndSend(react(event).value, vehicles_table, now))

\* What process_vehicle_events leaves for one event, given the value of its
\* evolve call.
VehicleEventOutcome(event, vehicles_table, new_state) ==
    IF new_state.raised # "none"
    THEN [raised |-> new_state.raised, vehicles_table |-> vehicles_table]
    ELSE [raised |-> "none",
          vehicles_table |->
              [vehicles_table EXCEPT ![event.vin] = new_state.value]]

\* The body of process_vehicle_events for one event.
process_vehicle_events(event, vehicles_table) ==
    VehicleEventOutcome(event, vehicles_table,
                        evolve(vehicles_table[event.vin], event))

\* process_ride_events handles one event of the ride-events topic and
\* leaves result.  The clock is read by the decide calls only, which a
\* handler that fails on its first line does not reach.
RideEventHandled(event, result, now) ==
    /\ ridesTable' = result.rides_table
    /\ vehicleTopic' = vehicleTopic \o result.sent
    /\ pipeOp' = [kind |-> "ride", event |-> event,
                  commands |-> react(event).value,
                  raised |-> result.raised,
                  decided |-> result.decided, sent |-> result.sent]
    /\ clock' = IF result.decided = <<>> THEN clock ELSE now
    /\ UNCHANGED <<rideVars, vehicleVars, history, facadeVars, valueOp, vehiclesTable>>

ClockReads(event) ==
    IF RideEventDTO_id(event).raised = "none" THEN clock..MaxClock ELSE {clock}

ProcessRideEvent ==
    \E event \in RideEventDTOs :
    \E now \in ClockReads(event) :
        /\ RideEventHandled(event,
                            process_ride_events(event, ridesTable,
                                                vehiclesTable, now), now)
        /\ UNCHANGED rideStream

\* The same step, with rideStream keeping for each ride id the fold of the
\* ride events delivered so far.
DeliverRideEvent ==
    \E event \in RideEventDTOs :
    \E now \in ClockReads(event) :
        /\ RideEventHandled(event,
                            process_ride_events(event, ridesTable,
                                                vehiclesTable, now), now)
        /\ rideStream' =
             [rideStream EXCEPT ![event.ride] =
                 Ride_evolve(rideStream[event.ride],
                             RideEventDTO_to_domain(event))]

\* produce_event: a producer outside the agents puts a vehicle event at the
\* end of the vehicle-events topic, whatever is waiting there.
ProduceVehicleEvent ==
    /\ Len(vehicleTopic) < MaxTopic
    /\ \E event \in VehicleEventDTOs :
        vehicleTopic' = Append(vehicleTopic, event)
    /\ pipeOp' = [kind |-> "produce"]
    /\ UNCHANGED <<rideVars, vehicleVars, clock, history, facadeVars, valueOp, ridesTable, vehiclesTable, rideStream>>

VehicleEventHandled(result) ==
    /\ vehiclesTable' = result.vehicles_table
    /\ pipeOp' = [kind |-> "vehicle", raised |-> result.raised]

\* The next event of the vehicle-events topic is delivered to
\* process_vehicle_events.
ProcessVehicleEvent ==
    /\ vehicleTopic # <<>>
    /\ VehicleEventHandled(process_vehicle_events(Head(vehicleTopic),
                                                  vehiclesTable))
    /\ vehicleTopic' = Tail(vehicleTopic)
    /\ UNCHANGED <<rideVars, vehicleVars, clock, history, facadeVars, valueOp, ridesTable, rideStream>>

NextPipeline == ProcessRideEvent \/ ProduceVehicleEvent \/ ProcessVehicleEvent

SpecPipeline == Init /\ [][NextPipeline]_vars

\* The ride side alone, over every content the vehicles table can have once
\* the vehicle events published are folded: a vehicle not added, in the
\* inventory or available.
StoredVehicleStatuses == {"InInventory", "Available"}

VehicleTables ==
    {t \in [Vins -> VehicleStateDTOs] :
        \A v \in Vins :
            t[v].type = "VehicleDTO"
            => t[v].vin = v /\ t[v].status \in StoredVehicleStatuses}

InitSaga ==
    /\ ride = InitialRideState
    /\ rideOp = NoOp
    /\ rideCreator = None
    /\ vehicle = InitialVehicleState
    /\ vehicleOp = NoOp
    /\ clock = 0
    /\ history = <<>>
    /\ readModel = InitialVehicleStateDTO
    /\ published = <<>>
    /\ facadeOp = NoOp
    /\ valueOp = NoOp
    /\ ridesTable = [r \in RideIds |-> InitialRideStateDTO]
    /\ vehiclesTable \in VehicleTables
    /\ vehicleTopic = <<>>
    /\ pipeOp = NoOp
    /\ rideStream = [r \in RideIds |-> InitialRideState]

NextSaga == DeliverRideEvent

SpecSaga == InitSaga /\ [][NextSaga]_vars

\* ---- one decision folded into the state it was decided against ----------
\* The command is any command: its ride id or vin need not be the state's.
DecideEvolveRide ==
    /\ valueOp = NoOp
    /\ \E command \in RideCommands :
       \E new_id \in NewIdsFor(command), now \in clock..MaxClock :
        LET result == RideCommand_decide(command, ride, new_id, now) IN
        /\ ride' = FoldRide(ride, result.events)
        /\ valueOp' = [kind |-> "agree", aggregate |-> "Ride",
                       command |-> command.type, from |-> ride,
                       foreign |-> /\ command.type # "RequestRide"
                                   /\ ride.type # "InitialRideState"
                                   /\ command.ride # ride.id,
                       raised |-> result.raised,
                       events |-> [i \in 1..Len(result.events) |->
                                      result.events[i].type]]
        /\ clock' = now
    /\ UNCHANGED <<rideOp, rideCreator, vehicleVars, history, facadeVars, pipeVars>>

DecideEvolveVehicle ==
    /\ valueOp = NoOp
    /\ \E command \in VehicleCommands, now \in clock..MaxClock :
        LET result == VehicleCommand_decide(command, vehicle, now) IN
        /\ vehicle' = FoldVehicle(vehicle, result.events)
        /\ valueOp' = [kind |-> "agree", aggregate |-> "Vehicle",
                       command |-> command.type, from |-> vehicle,
                       foreign |-> /\ vehicle.type # "InitialVehicleState"
                                   /\ command.vin # vehicle.vin,
                       raised |-> result.raised,
                       events |-> [i \in 1..Len(result.events) |->
                                      result.events[i].type],
                       given |-> command, emitted |-> result.events]
        /\ clock' = now
    /\ UNCHANGED <<rideVars, vehicleOp, history, facadeVars, pipeVars>>

NextAgree == DecideEvolveRide \/ DecideEvolveVehicle

SpecAgree == InitAttr /\ [][NextAgree]_vars

\* ---- the read models: the state of the loop is encoded, then decoded ----
\* What a conversion there and back leaves: the state, its DTO or the
\* exception of from_domain, and the state decoded from the DTO.
Converted(aggregate, instance, dto, back) ==
    [kind |-> "converted", aggregate |-> aggregate, instance |-> instance,
     dto |-> dto, back |-> back]

\* The ride the loop has reached is encoded as a read model and decoded.
ConvertRide ==
    /\ facadeOp = NoOp
    /\ vehicleOp = NoOp
    /\ LET dto == RideReadModelDTO_from_domain(ride) IN
       facadeOp' = Converted("Ride", ride, dto,
                       IF dto.raised # "none" THEN dto
                       ELSE RideReadModelDTO_to_domain(dto.value))
    /\ UNCHANGED <<rideVars, vehicleVars, clock, history, readModel, published, valueOp, pipeVars>>

\* The vehicle the loop has reached is encoded as a read model and decoded.
ConvertVehicle ==
    /\ facadeOp = NoOp
    /\ rideOp = NoOp
    /\ LET dto == VehicleReadModelDTO_from_domain(vehicle) IN
       facadeOp' = Converted("Vehicle", vehicle, dto,
                       IF dto.raised # "none" THEN dto
                       ELSE VehicleReadModelDTO_to_domain(dto.value))
    /\ UNCHANGED <<rideVars, vehicleVars, clock, history, readModel, published, valueOp, pipeVars>>

NextReadModel ==
    \/ facadeOp = NoOp /\ vehicleOp = NoOp /\ HandleRide
    \/ facadeOp = NoOp /\ rideOp = NoOp /\ HandleVehicle
    \/ ConvertRide
    \/ ConvertVehicle

SpecReadModel == Init /\ [][NextReadModel]_vars

\* ---- the facade as a function of its DTO arguments ----------------------
InitFacade ==
    /\ ride = InitialRideState
    /\ rideOp = NoOp
    /\ rideCreator = None
    /\ vehicle = InitialVehicleState
    /\ vehicleOp = NoOp
    /\ clock \in 0..MaxClock
    /\ history = <<>>
    /\ readModel \in VehicleStateDTOs \cup RideStateDTOs
    /\ published = <<>>
    /\ facadeOp = NoOp
    /\ valueOp = NoOp
    /\ ridesTable = [r \in RideIds |-> InitialRideStateDTO]
    /\ vehiclesTable = [v \in Vins |-> InitialVehicleStateDTO]
    /\ vehicleTopic = <<>>
    /\ pipeOp = NoOp
    /\ rideStream = [r \in RideIds |-> InitialRideState]

\* The command DTOs and event DTOs of the aggregate a state DTO belongs to
CommandDTOsFor(state) ==
    IF IsVehicleDTO(state) THEN VehicleCommandDTOs ELSE RideCommandDTOs

EventDTOsFor(state) ==
    IF IsVehicleDTO(state) THEN VehicleEventDTOs ELSE RideEventDTOs

\* One call of decide on the drawn state DTO; cause is the exception the
\* try block ended with.
FacadeDecide ==
    /\ facadeOp = NoOp
    /\ \E command \in CommandDTOsFor(readModel), new_id \in RideIds, now \in clock..MaxClock :
        /\ facadeOp' = [kind |-> "decide", command |-> command,
                        cause |-> decide_try(command, readModel, new_id, now).raised,
                        result |-> decide(command, readModel, new_id, now)]
        /\ clock' = now
        /\ UNCHANGED <<rideVars, vehicleVars, history, readModel, published, valueOp, pipeVars>>

\* One call of evolve on the drawn state DTO.
FacadeEvolve ==
    /\ facadeOp = NoOp
    /\ \E event \in EventDTOsFor(readModel) :
        /\ facadeOp' = [kind |-> "evolve", event |-> event,
                        cause |-> evolve_try(readModel, event).raised,
                        result |-> evolve(readModel, event)]
        /\ UNCHANGED <<rideVars, vehicleVars, clock, history, readModel, published, valueOp, pipeVars>>

\* One call of react on a ride event DTO.
FacadeReact ==
    /\ facadeOp = NoOp
    /\ \E event \in RideEventDTOs :
        /\ facadeOp' = [kind |-> "react", event |-> event,
                        result |-> react(event)]
        /\ UNCHANGED <<rideVars, vehicleVars, clock, history, readModel, published, valueOp, pipeVars>>

NextFacade == FacadeDecide \/ FacadeEvolve \/ FacadeReact

SpecFacade == InitFacade /\ [][NextFacade]_vars

\* ---- the loop through the facade, for one aggregate ---------------------
InitFacadeLoop ==
    /\ ride = InitialRideState
    /\ rideOp = NoOp
    /\ rideCreator = None
    /\ vehicle = InitialVehicleState
    /\ vehicleOp = NoOp
    /\ clock = 0
    /\ history = <<>>
    /\ readModel \in {InitialVehicleStateDTO, InitialRideStateDTO}
    /\ published = <<>>
    /\ facadeOp = NoOp
    /\ valueOp = NoOp
    /\ ridesTable = [r \in RideIds |-> InitialRideStateDTO]
    /\ vehiclesTable = [v \in Vins |-> InitialVehicleStateDTO]
    /\ vehicleTopic = <<>>
    /\ pipeOp = NoOp
    /\ rideStream = [r \in RideIds |-> InitialRideState]

\* The producing side and the consuming side of the loop are two steps:
\* events published and not yet folded are the events of published beyond
\* the length of history, the list of the events delivered so far.
Waiting == Len(history) < Len(published)

\* Whether every decide so far found no event waiting, that is whether the
\* loop has been run sequentially.
Sequential == facadeOp = NoOp \/ facadeOp.sequential

\* events = decide(command, state), then the events published: the state
\* read is the stored one, whether or not events are still waiting.
FacadeDecidePublish ==
    /\ Len(published) < MaxLog
    /\ \E command \in CommandDTOsFor(readModel), new_id \in RideIds, now \in clock..MaxClock :
        LET result == decide(command, readModel, new_id, now) IN
        /\ clock' = now
        /\ facadeOp' = [kind |-> "decide", command |-> command,
                        raised |-> result.raised,
                        sequential |-> Sequential /\ ~Waiting]
        /\ published' = IF result.raised = "none"
                        THEN published \o result.events
                        ELSE published
        /\ UNCHANGED <<rideVars, vehicleVars, history, readModel, valueOp, pipeVars>>

\* The next waiting event is delivered: new_state = evolve(current_state,
\* event); table[key] = new_state.  An EvolutionError ends the handling of
\* the event before the table is written.
FacadeEvolveStore ==
    /\ Waiting
    /\ LET event == published[Len(history) + 1]
           result == evolve(readModel, event)
       IN  /\ history' = Append(history, event)
           /\ readModel' = IF result.raised = "none" THEN result.value
                           ELSE readModel
           /\ facadeOp' = [kind |-> "store", event |-> event,
                           raised |-> result.raised,
                           sequential |-> Sequential]
    /\ UNCHANGED <<rideVars, vehicleVars, clock, published, valueOp, pipeVars>>

NextFacadeLoop == FacadeDecidePublish \/ FacadeEvolveStore

SpecFacadeLoop == InitFacadeLoop /\ [][NextFacadeLoop]_vars

\* =====================================================================
\* Properties
\* =====================================================================
RideStateTypes ==
    {"InitialRideState", "RequestedRide", "ScheduledRide", "InProgressRide",
     "CancelledRequestedRide", "CancelledScheduledRide", "CompletedRide"}

TerminalRideTypes ==
    {"CancelledRequestedRide", "CancelledScheduledRide", "CompletedRide"}

\* The ride decision table of the specification: the event type that the
\* pair (state type, command type) is to emit, "none" when it is rejected.
RideDecisionTable(stateType, commandType) ==
    CASE stateType = "InitialRideState" /\ commandType = "RequestRide" ->
            "RideRequested"
      [] stateType = "RequestedRide" /\ commandType = "ScheduleRide" ->
            "RideScheduled"
      [] stateType = "RequestedRide" /\ commandType = "CancelRide" ->
            "RequestedRideCancelled"
      [] stateType = "ScheduledRide" /\ commandType = "CancelRide" ->
            "ScheduledRideCancelled"
      [] stateType = "ScheduledRide" /\ commandType = "ConfirmPickup" ->
            "RiderPickedUp"
      [] stateType = "InProgressRide" /\ commandType = "EndRide" ->
            "RiderDroppedOff"
      [] OTHER -> "none"

\* The ride transition table of the specification: the next state type of
\* (state type, event type), "none" when the event does not apply.
RideTransitionTable(stateType, eventType) ==
    CASE stateType = "InitialRideState" /\ eventType = "RideRequested" ->
            "RequestedRide"
      [] stateType = "RequestedRide" /\ eventType = "RideScheduled" ->
            "ScheduledRide"
      [] stateType = "RequestedRide" /\ eventType = "RequestedRideCancelled" ->
            "CancelledRequestedRide"
      [] stateType = "ScheduledRide" /\ eventType = "ScheduledRideCancelled" ->
            "CancelledScheduledRide"
      [] stateType = "ScheduledRide" /\ eventType = "RiderPickedUp" ->
            "InProgressRide"
      [] stateType = "InProgressRide" /\ eventType = "RiderDroppedOff" ->
            "CompletedRide"
      [] OTHER -> "none"

\* The vehicle decision table of the specification.
VehicleDecisionTable(stateType, commandType) ==
    CASE stateType = "InitialVehicleState" /\ commandType = "AddVehicle" ->
            "VehicleAdded"
      [] stateType = "InventoryVehicle" /\ commandType = "MakeVehicleAvailable" ->
            "VehicleAvailable"
      [] stateType = "InventoryVehicle" /\ commandType = "RemoveVehicle" ->
            "VehicleRemoved"
      [] stateType = "AvailableVehicle" /\ commandType = "MarkVehicleOccupied" ->
            "VehicleOccupied"
      [] stateType = "AvailableVehicle" /\ commandType = "RequestVehicleReturn" ->
            "VehicleReturning"
      [] stateType = "OccupiedVehicle" /\ commandType = "MarkVehicleUnoccupied" ->
            "VehicleAvailable"
      [] stateType = "OccupiedVehicle" /\ commandType = "RequestVehicleReturn" ->
            "VehicleReturnRequested"
      [] stateType = "OccupiedReturningVehicle"
            /\ commandType = "MarkVehicleUnoccupied" -> "VehicleReturning"
      [] stateType = "ReturningVehicle" /\ commandType = "ConfirmVehicleReturn" ->
            "VehicleReturned"
      [] OTHER -> "none"

\* The vehicle transition table of the specification.
VehicleTransitionTable(stateType, eventType) ==
    CASE stateType = "InitialVehicleState" /\ eventType = "VehicleAdded" ->
            "InventoryVehicle"
      [] stateType = "InventoryVehicle" /\ eventType = "VehicleAvailable" ->
            "AvailableVehicle"
      [] stateType = "InventoryVehicle" /\ eventType = "VehicleRemoved" ->
            "InitialVehicleState"
      [] stateType = "AvailableVehicle" /\ eventType = "VehicleOccupied" ->
            "OccupiedVehicle"
      [] stateType = "AvailableVehicle" /\ eventType = "VehicleReturning" ->
            "ReturningVehicle"
      [] stateType = "OccupiedVehicle" /\ eventType = "VehicleAvailable" ->
            "AvailableVehicle"
      [] stateType = "OccupiedVehicle" /\ eventType = "VehicleReturnRequested" ->
            "OccupiedReturningVehicle"
      [] stateType = "OccupiedReturningVehicle" /\ eventType = "VehicleReturning" ->
            "ReturningVehicle"
      [] stateType = "ReturningVehicle" /\ eventType = "VehicleReturned" ->
            "InventoryVehicle"
      [] OTHER -> "none"

\* C1: a ride command decided against a state that is not one of its
\* accepted sources (terminal states included) fails with RideCommandError
\* and produces no events.
C1_RideDecideRejects ==
    (rideOp.kind = "decide"
     /\ RideDecisionTable(ride.type, rideOp.command.type) = "none")
    => (rideOp.result.raised = "RideCommandError"
        /\ rideOp.result.events = <<>>)

\* EndRide was decided against a CompletedRide: a rejected decision on a
\* terminal state
C1_Witness ==
    /\ rideOp.kind = "decide"
    /\ rideOp.command.type = "EndRide"
    /\ ride.type = "CompletedRide"
    /\ rideOp.result.raised = "RideCommandError"

\* C2: a vehicle command decided against a state that is not one of its
\* listed sources (InitialVehicleState included) fails with
\* VehicleCommandError, with no other error type, and produces no events.
C2_VehicleDecideRejects ==
    (vehicleOp.kind = "decide"
     /\ VehicleDecisionTable(vehicle.type, vehicleOp.command.type) = "none")
    => (vehicleOp.result.raised = "VehicleCommandError"
        /\ vehicleOp.result.events = <<>>)

\* C3: for each accepted ride pair decide returns exactly one event, of the
\* type the table lists.
C3_RideDecideAccepts ==
    (rideOp.kind = "decide"
     /\ RideDecisionTable(ride.type, rideOp.command.type) # "none")
    => (/\ rideOp.result.raised = "none"
        /\ Len(rideOp.result.events) = 1
        /\ rideOp.result.events[1].type =
              RideDecisionTable(ride.type, rideOp.command.type))

C3_Witness ==
    /\ rideOp.kind = "decide"
    /\ rideOp.command.type = "CancelRide"
    /\ ride.type = "ScheduledRide"
    /\ Len(rideOp.result.events) = 1
    /\ rideOp.result.events[1].type = "ScheduledRideCancelled"

\* C4: for each of the nine accepted vehicle pairs decide returns exactly
\* one event, of the type the table lists.
C4_VehicleDecideAccepts ==
    (vehicleOp.kind = "decide"
     /\ VehicleDecisionTable(vehicle.type, vehicleOp.command.type) # "none")
    => (/\ vehicleOp.result.raised = "none"
        /\ Len(vehicleOp.result.events) = 1
        /\ vehicleOp.result.events[1].type =
              VehicleDecisionTable(vehicle.type, vehicleOp.command.type))

C4_Witness ==
    /\ vehicleOp.kind = "decide"
    /\ vehicleOp.command.type = "MarkVehicleUnoccupied"
    /\ vehicle.type = "OccupiedReturningVehicle"
    /\ Len(vehicleOp.result.events) = 1
    /\ vehicleOp.result.events[1].type = "VehicleReturning"

\* C5: folding a ride event moves the ride to the state type the transition
\* table lists for (state, event) and leaves the state as it is for every
\* other pair.
C5_RideEvolveTable ==
    [][rideOp'.kind = "evolve" =>
        IF RideTransitionTable(ride.type, rideOp'.type) # "none"
        THEN ride'.type = RideTransitionTable(ride.type, rideOp'.type)
        ELSE ride' = ride]_vars

\* a RiderPickedUp folded into a ScheduledRide gave an InProgressRide
C5_Witness ==
    /\ rideOp.kind = "evolve"
    /\ rideOp.type = "RiderPickedUp"
    /\ rideOp.from = "ScheduledRide"
    /\ ride.type = "InProgressRide"

\* C6: folding a vehicle event moves the vehicle to the state type the
\* transition table lists for (state, event) and leaves the state as it is
\* for every other pair.
C6_VehicleEvolveTable ==
    [][vehicleOp'.kind = "evolve" =>
        IF VehicleTransitionTable(vehicle.type, vehicleOp'.event.type) # "none"
        THEN vehicle'.type =
                VehicleTransitionTable(vehicle.type, vehicleOp'.event.type)
        ELSE vehicle' = vehicle]_vars

C6_Witness ==
    /\ vehicleOp.kind = "evolve"
    /\ vehicleOp.event.type = "VehicleReturning"
    /\ vehicleOp.from = "OccupiedReturningVehicle"
    /\ vehicle.type = "ReturningVehicle"

\* C7: a terminal ride is absorbing: folding any ride event into a
\* CompletedRide, CancelledRequestedRide or CancelledScheduledRide leaves
\* every attribute as it was.
C7_TerminalAbsorbing ==
    [][ride.type \in TerminalRideTypes => ride' = ride]_vars

\* a ScheduledRideCancelled was folded into a CancelledRequestedRide
C7_Witness ==
    /\ rideOp.kind = "evolve"
    /\ rideOp.from = "CancelledRequestedRide"
    /\ rideOp.type = "ScheduledRideCancelled"
    /\ ride.type = "CancelledRequestedRide"

\* The lifecycle order: b is a, or lies after a on the paths
\* Initial -> Requested -> Scheduled -> InProgress -> Completed,
\* Requested -> CancelledRequested, Scheduled -> CancelledScheduled.
RideRank(t) ==
    CASE t = "InitialRideState" -> 0
      [] t = "RequestedRide" -> 1
      [] t = "ScheduledRide" -> 2
      [] t = "InProgressRide" -> 3
      [] t = "CompletedRide" -> 4
      [] t = "CancelledRequestedRide" -> 5
      [] t = "CancelledScheduledRide" -> 5

RideForward(a, b) ==
    \/ a = b
    \/ /\ a \notin TerminalRideTypes
       /\ RideRank(b) > RideRank(a)
       /\ ~(b = "CancelledRequestedRide" /\ RideRank(a) > 1)
       /\ ~(b = "CancelledScheduledRide" /\ RideRank(a) > 2)

\* C8: a ride never reverts: every fold keeps the variant or moves it
\* forward in the lifecycle; none goes back to an earlier variant or to
\* InitialRideState.
C8_RideNeverReverts ==
    [][RideForward(ride.type, ride'.type)]_vars

\* a RideRequested (the creating event) folded into an InProgressRide
C8_Witness ==
    /\ rideOp.kind = "evolve"
    /\ rideOp.type = "RideRequested"
    /\ rideOp.from = "InProgressRide"
    /\ ride.type = "InProgressRide"

\* C9: every non-initial ride state has the id of the RideRequested event
\* that created the ride, whatever ids the later events carry.
C9_RideIdImmutable ==
    ride.type # "InitialRideState" => ride.id = rideCreator

\* a RiderDroppedOff carrying another ride id completed the ride
C9_Witness ==
    /\ rideOp.kind = "evolve"
    /\ rideOp.type = "RiderDroppedOff"
    /\ rideOp.from = "InProgressRide"
    /\ ride.type = "CompletedRide"
    /\ rideOp.ride # ride.id

\* C10: vin and owner propagate unchanged: a fold that takes a non-initial
\* vehicle to a non-initial vehicle keeps its vin and its owner, whatever
\* vin the event carries.
C10_VinOwnerPropagate ==
    [][(vehicle.type # "InitialVehicleState"
        /\ vehicle'.type # "InitialVehicleState")
       => (vehicle'.vin = vehicle.vin /\ vehicle'.owner = vehicle.owner)]_vars

\* a VehicleOccupied carrying another vin occupied an AvailableVehicle
C10_Witness ==
    /\ vehicleOp.kind = "evolve"
    /\ vehicleOp.event.type = "VehicleOccupied"
    /\ vehicleOp.from = "AvailableVehicle"
    /\ vehicle.type = "OccupiedVehicle"
    /\ vehicleOp.event.vin # vehicle.vin

\* ---------------------------------------------------------------------
\* The loop and the facade
\* ---------------------------------------------------------------------
\* Folding a list of event DTOs, in order, with the facade's evolve
RECURSIVE FacadeFold(_, _)
FacadeFold(state, events) ==
    IF events = <<>> THEN [raised |-> "none", value |-> state]
    ELSE IF evolve(state, Head(events)).raised # "none"
    THEN evolve(state, Head(events))
    ELSE FacadeFold(evolve(state, Head(events)).value, Tail(events))

\* C11: in the decide -> publish -> evolve loop of one aggregate run
\* sequentially (every decide found no event waiting, and every published
\* event has been delivered), the current read model is the fold, with
\* evolve, of the events published so far, starting from the initial read
\* model.
C11_StateIsFoldOfHistory ==
    LET initial == IF IsVehicleDTO(readModel) THEN InitialVehicleStateDTO
                   ELSE InitialRideStateDTO
        fold == FacadeFold(initial, published)
    IN  (Sequential /\ ~Waiting)
        => (fold.raised = "none" /\ fold.value = readModel)

\* C12: a rejected command changes nothing.  When decide raises for a ride
\* or vehicle command, the state it was passed is left as it was and no
\* event is returned to be appended to the history, so a step of the loop
\* whose decide raised leaves the aggregate's state and its history as they
\* were, and the command after a rejected one is decided against the state
\* the rejected one was decided against.
C12_RejectedChangesNothing ==
    [][/\ (rideOp' # rideOp /\ rideOp'.raised # "none")
            => ride' = ride /\ history' = history
       /\ (vehicleOp' # vehicleOp /\ vehicleOp'.raised # "none")
            => vehicle' = vehicle /\ history' = history
       /\ (rideOp.kind = "handle" /\ rideOp.raised # "none" /\ rideOp' # rideOp)
            => rideOp'.from = rideOp.from
       /\ (vehicleOp.kind = "handle" /\ vehicleOp.raised # "none"
           /\ vehicleOp' # vehicleOp)
            => vehicleOp'.from = vehicleOp.from]_vars

\* a command rejected by a scheduled ride that has two events behind it
C12_Witness ==
    /\ rideOp.kind = "handle"
    /\ rideOp.raised = "RideCommandError"
    /\ ride.type = "ScheduledRide"
    /\ Len(history) = 2

\* The saga's table: the vehicle command class a ride event class calls
\* for, or "none"
ReactTable(eventType) ==
    CASE eventType = "RideScheduledEventDTO" -> "MarkVehicleOccupiedCommandDTO"
      [] eventType = "RiderDroppedOffEventDTO" -> "MarkVehicleUnoccupiedCommandDTO"
      [] OTHER -> "none"

\* C13: react maps RideScheduled{vin=V} to [MarkVehicleOccupied(V)],
\* ScheduledRideCancelled{vin=V} and RiderDroppedOff{vin=V} to
\* [MarkVehicleUnoccupied(V)], and RideRequested, RequestedRideCancelled
\* and RiderPickedUp to []; the event is react's only argument, so the
\* answer is the same beside every read model.
C13_ReactTable ==
    facadeOp.kind = "react" =>
        LET event == facadeOp.event
            commands == facadeOp.result.value
        IN  /\ facadeOp.result.raised = "none"
            /\ IF event.type = "RideCancelledEventDTO"
               THEN IF event.vin = None THEN commands = <<>>
                    ELSE commands = <<[type |-> "MarkVehicleUnoccupiedCommandDTO",
                                       vin |-> event.vin]>>
               ELSE IF ReactTable(event.type) = "none" THEN commands = <<>>
               ELSE commands = <<[type |-> ReactTable(event.type),
                                  vin |-> event.vin]>>

\* react has answered a RiderPickedUp with no command while the read
\* model is an occupied vehicle
C13_Witness ==
    /\ facadeOp.kind = "react"
    /\ facadeOp.event.type = "RiderPickedUpEventDTO"
    /\ facadeOp.result.value = <<>>
    /\ readModel.type = "VehicleDTO"
    /\ readModel.status = "Occupied"

\* ---------------------------------------------------------------------
\* Scenarios
\* ---------------------------------------------------------------------
\* C14: RequestRide decided on InitialRideState emits one RideRequested
\* whose rider, origin, destination and pickup_time are the command's,
\* and folding it into InitialRideState gives a RequestedRide whose
\* pickup_location is the command's origin, whose drop_off_location is
\* the command's destination and whose requested_pickup_time is the
\* command's pickup_time.
C14_RequestRideCarriesCommand ==
    (/\ rideOp.kind = "decide"
     /\ rideOp.command.type = "RequestRide"
     /\ ride.type = "InitialRideState")
    => LET command == rideOp.command
           event == rideOp.result.events[1]
           state == Ride_evolve(ride, event)
       IN  /\ rideOp.result.raised = "none"
           /\ Len(rideOp.result.events) = 1
           /\ event.type = "RideRequested"
           /\ event.rider = command.rider
           /\ event.origin = command.origin
           /\ event.destination = command.destination
           /\ event.pickup_time = command.pickup_time
           /\ state.type = "RequestedRide"
           /\ state.pickup_location = command.origin
           /\ state.drop_off_location = command.destination
           /\ state.requested_pickup_time = command.pickup_time

\* The event type the decision tables list for a (command DTO, state DTO)
\* pair, read off the domain classes the DTOs stand for; "none" when the
\* pair is rejected.
FacadeDecisionTable(command, state) ==
    IF IsVehicleDTO(state)
    THEN VehicleDecisionTable(IVehicleDTO_to_domain(state).value.type,
                              VehicleCommandDTO_to_domain(command).type)
    ELSE RideDecisionTable(IRideDTO_to_domain(state).value.type,
                           RideCommandDTO_to_domain(command).type)

\* C15: the facade's decide returns the list of event DTOs, and does not
\* fail with CommandError, for every (command DTO, state DTO) pair that the
\* ride table or the vehicle table accepts, RequestRide on the initial ride
\* state and AddVehicle on the initial vehicle state included.
C15_FacadeDecideAccepts ==
    (/\ facadeOp.kind = "decide"
     /\ FacadeDecisionTable(facadeOp.command, readModel) # "none")
    => (/\ facadeOp.result.raised = "none"
        /\ Len(facadeOp.result.events) = 1)

\* C16: whenever the body of the facade's decide fails, with the
\* aggregate's RideCommandError or VehicleCommandError or with any failure
\* of a conversion of the command, the state or the events, the caller
\* sees one CommandError and receives no events.
C16_DecideWrapsEveryFailure ==
    (facadeOp.kind = "decide" /\ facadeOp.cause # "none")
    => (/\ facadeOp.result.raised = "CommandError"
        /\ facadeOp.result.events = <<>>)

\* a failure that is no command error of an aggregate was wrapped
C16_Witness ==
    /\ facadeOp.kind = "decide"
    /\ facadeOp.cause \notin {"none", "RideCommandError", "VehicleCommandError"}
    /\ facadeOp.result.raised = "CommandError"
    /\ facadeOp.result.events = <<>>

\* The state type the transition tables list for a (state DTO, event DTO)
\* pair, read off the domain classes the DTOs stand for; "none" when the
\* event does not apply to the state.
FacadeTransitionTable(state, event) ==
    IF IsVehicleDTO(state)
    THEN VehicleTransitionTable(IVehicleDTO_to_domain(state).value.type,
                                VehicleEventDTO_to_domain(event).type)
    ELSE RideTransitionTable(IRideDTO_to_domain(state).value.type,
                             RideEventDTO_to_domain(event).type)

\* The domain class a state DTO stands for
FacadeStateType(state) ==
    IF IsVehicleDTO(state) THEN IVehicleDTO_to_domain(state).value.type
    ELSE IRideDTO_to_domain(state).value.type

\* C17: for every state DTO and event DTO that match a transition of the
\* ride or vehicle evolve table, the facade's evolve returns the DTO of the
\* table's next state and does not fail with EvolutionError.
C17_FacadeEvolveTable ==
    (/\ facadeOp.kind = "evolve"
     /\ FacadeTransitionTable(readModel, facadeOp.event) # "none")
    => (/\ facadeOp.result.raised = "none"
        /\ FacadeStateType(facadeOp.result.value) =
              FacadeTransitionTable(readModel, facadeOp.event))

\* C18: through the facade's evolve an event with no transition from the
\* current read-model variant is not an error: evolve returns a state
\* equal to its input and never fails with EvolutionError.
C18_FacadeEvolveIgnores ==
    (/\ facadeOp.kind = "evolve"
     /\ FacadeTransitionTable(readModel, facadeOp.event) = "none")
    => (/\ facadeOp.result.raised = "none"
        /\ facadeOp.result.value = readModel)

\* C19: folding the ordered sequence RideRequested, RideScheduled,
\* RiderPickedUp, RiderDroppedOff from InitialRideState yields a
\* CompletedRide whose id is the RideRequested's ride id, whose rider is
\* the RideRequested's rider and whose vin is the RideScheduled's vin.
C19_FullSequenceCompletes ==
    (rideOp.kind = "evolve" /\ Len(history) = Len(StepTypes))
    => (/\ ride.type = "CompletedRide"
        /\ ride.id = history[1].ride
        /\ ride.rider = history[1].rider
        /\ ride.vin = history[2].vin)

\* the sequence was folded to a CompletedRide although the later events
\* name another ride and another vehicle
C19_Witness ==
    /\ Len(history) = Len(StepTypes)
    /\ ride.type = "CompletedRide"
    /\ rideOp.type = "RiderDroppedOff"
    /\ history[1].type = "RideRequested"
    /\ history[2].type = "RideScheduled"
    /\ history[3].type = "RiderPickedUp"
    /\ history[4].type = "RiderDroppedOff"
    /\ history[4].ride # history[1].ride
    /\ history[3].vin # history[2].vin
    /\ ride.id = history[1].ride
    /\ ride.vin = history[2].vin

\* C20: running decide then evolve step by step, AddVehicle(owner U, vin V)
\* on InitialVehicleState emits the one event VehicleAdded(U, V) and folds
\* to InventoryVehicle(V, U); MakeVehicleAvailable(V) on that emits the one
\* event VehicleAvailable(V, t) and folds to AvailableVehicle(V, U); a
\* second MakeVehicleAvailable(V), on the AvailableVehicle, fails with
\* VehicleCommandError.  An event takes its vin from the command and a
\* state keeps its own, so the scenario is the case of a command that
\* names the vehicle it is decided against.
C20_AddThenAvailableTwice ==
    [][vehicleOp'.kind = "handle" =>
        LET command == vehicleOp'.command IN
        /\ (command.type = "AddVehicle" /\ vehicle = InitialVehicleState)
           => (/\ vehicleOp'.raised = "none"
               /\ history' = Append(history,
                                    VehicleAdded(command.vin, command.owner))
               /\ vehicle' = InventoryVehicle(command.vin, command.owner))
        /\ (command.type = "MakeVehicleAvailable"
            /\ vehicle.type = "InventoryVehicle")
           => (/\ vehicleOp'.raised = "none"
               /\ history' = Append(history,
                                    VehicleAvailable(command.vin, clock'))
               /\ vehicle' = AvailableVehicle(vehicle.vin, vehicle.owner))
        /\ (command.type = "MakeVehicleAvailable"
            /\ vehicle.type = "AvailableVehicle")
           => (/\ vehicleOp'.raised = "VehicleCommandError"
               /\ history' = history
               /\ vehicle' = vehicle)]_vars

\* the whole scenario was run: the vehicle was added, made available, and
\* the second MakeVehicleAvailable was rejected
C20_Witness ==
    /\ vehicleOp.kind = "handle"
    /\ vehicleOp.command.type = "MakeVehicleAvailable"
    /\ vehicleOp.from.type = "AvailableVehicle"
    /\ vehicleOp.raised = "VehicleCommandError"
    /\ Len(history) = 2
    /\ history[1] = VehicleAdded(vehicle.vin, vehicle.owner)
    /\ history[2].type = "VehicleAvailable"
    /\ history[2].vin = vehicle.vin
    /\ vehicleOp.command.vin = vehicleOp.from.vin
    /\ vehicle = AvailableVehicle(vehicleOp.command.vin, vehicle.owner)

\* C21: running decide then evolve step by step from OccupiedVehicle(V, U),
\* RequestVehicleReturn emits the one event VehicleReturnRequested and folds
\* to OccupiedReturningVehicle; MarkVehicleUnoccupied on that emits
\* VehicleReturning and folds to ReturningVehicle; ConfirmVehicleReturn on
\* that emits VehicleReturned and folds to InventoryVehicle; the vin V and
\* the owner U are kept at every step, whatever vin the command names (the
\* event carries the command's).
C21_ReturnScenario ==
    [][vehicleOp'.kind = "handle" =>
        LET command == vehicleOp'.command IN
        /\ (command.type = "RequestVehicleReturn"
            /\ vehicle.type = "OccupiedVehicle")
           => (/\ vehicleOp'.raised = "none"
               /\ history' = Append(history,
                                VehicleReturnRequested(command.vin, clock'))
               /\ vehicle' = OccupiedReturningVehicle(vehicle.vin,
                                                      vehicle.owner))
        /\ (command.type = "MarkVehicleUnoccupied"
            /\ vehicle.type = "OccupiedReturningVehicle")
           => (/\ vehicleOp'.raised = "none"
               /\ history' = Append(history,
                                    VehicleReturning(command.vin, clock'))
               /\ vehicle' = ReturningVehicle(vehicle.vin, vehicle.owner))
        /\ (command.type = "ConfirmVehicleReturn"
            /\ vehicle.type = "ReturningVehicle")
           => (/\ vehicleOp'.raised = "none"
               /\ history' = Append(history,
                                    VehicleReturned(command.vin, clock'))
               /\ vehicle' = InventoryVehicle(vehicle.vin, vehicle.owner))
      ]_vars

\* the three steps were run from the occupied vehicle and the vehicle is
\* back in the inventory
C21_Witness ==
    /\ vehicleOp.kind = "handle"
    /\ vehicleOp.command.type = "ConfirmVehicleReturn"
    /\ vehicleOp.from.type = "ReturningVehicle"
    /\ Len(history) = 3
    /\ history[1].type = "VehicleReturnRequested"
    /\ history[2].type = "VehicleReturning"
    /\ history[3].type = "VehicleReturned"
    /\ vehicle = InventoryVehicle(vehicleOp.from.vin, vehicleOp.from.owner)
    /\ \A i \in 1..3 : history[i].vin = vehicle.vin

\* ---------------------------------------------------------------------
\* Conversions and value objects
\* ---------------------------------------------------------------------
\* C24: the ride cancellation DTO tells the two cancellation events apart:
\* RequestedRideCancelled encodes to a DTO with no vin, ScheduledRideCancelled
\* to a DTO with the vin, and decoding the encoding of either gives back an
\* event of the same type with the same ride, vin and cancelled_at.
C24_CancellationRoundTrip ==
    (/\ facadeOp.kind \in {"encoded", "decoded"}
     /\ facadeOp.instance.type \in {"RequestedRideCancelled",
                                    "ScheduledRideCancelled"})
    => (/\ facadeOp.dto.raised = "none"
        /\ facadeOp.dto.value.type = "RideCancelledEventDTO"
        /\ facadeOp.dto.value.ride = facadeOp.instance.ride
        /\ facadeOp.dto.value.cancelled_at = facadeOp.instance.cancelled_at
        /\ IF facadeOp.instance.type = "RequestedRideCancelled"
           THEN facadeOp.dto.value.vin = None
           ELSE facadeOp.dto.value.vin = facadeOp.instance.vin
        /\ facadeOp.kind = "decoded" => facadeOp.back = facadeOp.instance)

\* a ScheduledRideCancelled came back from its DTO with its vin
C24_Witness ==
    /\ facadeOp.kind = "decoded"
    /\ facadeOp.instance.type = "ScheduledRideCancelled"
    /\ facadeOp.dto.value.vin = facadeOp.instance.vin
    /\ facadeOp.back.type = "ScheduledRideCancelled"
    /\ facadeOp.back.vin = facadeOp.instance.vin

\* C25: GeoCoordinates construction succeeds exactly when the latitude is
\* in [-90, 90] and the longitude is in [-180, 180], bounds included; it
\* fails with InvalidLatitude when the latitude is out of range, with
\* InvalidLongitude when only the longitude is, and builds no object when
\* it fails.
C25_GeoCoordinatesRange ==
    valueOp.kind = "GeoCoordinates"
    => LET latitudeIn == /\ ~valueOp.latitude.nan
                         /\ valueOp.latitude.v >= MIN_LATITUDE
                         /\ valueOp.latitude.v <= MAX_LATITUDE
           longitudeIn == /\ ~valueOp.longitude.nan
                          /\ valueOp.longitude.v >= MIN_LONGITUDE
                          /\ valueOp.longitude.v <= MAX_LONGITUDE
       IN  /\ (valueOp.result.raised = "none") <=> (latitudeIn /\ longitudeIn)
           /\ ~latitudeIn => valueOp.result.raised = "InvalidLatitude"
           /\ (latitudeIn /\ ~longitudeIn)
              => valueOp.result.raised = "InvalidLongitude"
           /\ valueOp.result.raised # "none" => valueOp.result.value = None

\* C26: Vin construction succeeds exactly when the string has exactly 17
\* characters, all of them alphanumeric, with at least one digit and at
\* least one letter; every other string fails with the invalid-VIN error.
C26_VinPattern ==
    valueOp.kind = "Vin"
    => ((valueOp.result.raised = "none")
        <=> (/\ StrLen(valueOp.value) = VIN_LENGTH
             /\ valueOp.value.digits + valueOp.value.letters = VIN_LENGTH
             /\ valueOp.value.digits >= 1
             /\ valueOp.value.letters >= 1))

\* C27: reading id on InitialRideState, and vin or owner on
\* InitialVehicleState, raises IllegalStateError; on every other variant
\* the read returns the stored value.
C27_InitialAttributesRaise ==
    valueOp.kind = "getattr"
    => LET state == IF valueOp.name = "id" THEN ride ELSE vehicle
           initial == state.type \in {"InitialRideState", "InitialVehicleState"}
           stored == CASE valueOp.name = "id" -> state.id
                       [] valueOp.name = "vin" -> state.vin
                       [] valueOp.name = "owner" -> state.owner
       IN  IF initial
           THEN valueOp.result = [raised |-> "IllegalStateError", value |-> None]
           ELSE valueOp.result = [raised |-> "none", value |-> stored]

C27_Witness ==
    /\ valueOp.kind = "getattr"
    /\ valueOp.name = "id"
    /\ ride = InitialRideState
    /\ valueOp.result.raised = "IllegalStateError"

\* the timestamp field of a ride event
EventStamp(event) ==
    CASE event.type = "RideRequested" -> event.requested_at
      [] event.type = "RideScheduled" -> event.scheduled_at
      [] event.type = "RiderPickedUp" -> event.picked_up_at
      [] event.type = "RiderDroppedOff" -> event.dropped_off_at
      [] event.type \in {"RequestedRideCancelled", "ScheduledRideCancelled"}
           -> event.cancelled_at

\* the timestamp a ride state keeps of the last event folded into it
RideStamp(state) ==
    CASE state.type = "RequestedRide" -> state.requested_at
      [] state.type = "ScheduledRide" -> state.scheduled_at
      [] state.type = "InProgressRide" -> state.picked_up_at
      [] state.type = "CompletedRide" -> state.dropped_off_at
      [] state.type \in {"CancelledRequestedRide", "CancelledScheduledRide"}
           -> state.cancelled_at

\* C28: when the commands of one ride are handled one after the other and
\* the clock each decide reads never goes backwards, every emitted event
\* carries the clock value read by its decide, whatever times the command
\* holds, and that value is not before the timestamp of the event emitted
\* before it.
C28_TimestampsFromClock ==
    [][(rideOp'.kind = "handle" /\ rideOp'.raised = "none")
       => \A command \in RideCommands :
          \A new_id \in NewIdsFor(command) :
            LET result == RideCommand_decide(command, ride, new_id, clock')
            IN  (command.type = rideOp'.type /\ result.raised = "none")
                => \A i \in 1..Len(result.events) :
                     /\ EventStamp(result.events[i]) = clock'
                     /\ ride.type # "InitialRideState"
                        => RideStamp(ride) <= EventStamp(result.events[i])
                     /\ RideStamp(ride') = EventStamp(result.events[i])]_vars

C28_Witness ==
    /\ rideOp.kind = "handle"
    /\ rideOp.raised = "none"
    /\ ride.type = "ScheduledRide"
    /\ ride.scheduled_at = clock
    /\ ride.scheduled_at > ride.scheduled_pickup_time

\* C29: for every ride or vehicle state s and every event e of the same
\* aggregate, evolve(evolve(s, e), e) equals evolve(s, e): an event
\* delivered twice in a row leaves the state it leaves when delivered once.
C29_EvolveTwiceIsOnce ==
    valueOp.kind = "twice" => valueOp.twice = valueOp.once

C29_Witness ==
    /\ valueOp.kind = "twice"
    /\ valueOp.from = "RequestedRide"
    /\ valueOp.once.type = "ScheduledRide"
    /\ ride = valueOp.once

\* the events of a topic that are keyed by one vin, in topic order
EventsFor(topic, vin) == SelectSeq(topic, LAMBDA event : event.vin = vin)

\* C22: the ride-event handler decides every vehicle command of the saga,
\* and decides the command for vin V against the fold of all the vehicle
\* events published for V so far: the state stored for V, advanced by the
\* events for V still waiting in the topic; the vehicle-event handler folds
\* the events in the order of the topic.
C22_DecideSeesLatestState ==
    [][/\ pipeOp'.kind = "ride"
          => /\ Len(pipeOp'.decided) = Len(pipeOp'.commands)
             /\ \A i \in 1..Len(pipeOp'.decided) :
                  /\ pipeOp'.decided[i].command = pipeOp'.commands[i]
                  /\ pipeOp'.decided[i].state
                       = FacadeFold(vehiclesTable[pipeOp'.commands[i].vin],
                                    EventsFor(vehicleTopic,
                                              pipeOp'.commands[i].vin)).value
       /\ pipeOp'.kind = "vehicle"
          => /\ vehicleTopic' = Tail(vehicleTopic)
             /\ pipeOp'.raised = "none"
                => vehiclesTable'[Head(vehicleTopic).vin]
                     = evolve(vehiclesTable[Head(vehicleTopic).vin],
                              Head(vehicleTopic)).value]_vars

\* C23: when the vehicle state stored for the vin of a saga command does
\* not accept the command, the ride-event handler ends with CommandError
\* and sends no vehicle event.
C23_RejectedSagaCommandSurfaces ==
    [][pipeOp'.kind = "ride"
       => \A i \in 1..Len(pipeOp'.commands) :
            decide(pipeOp'.commands[i],
                   vehiclesTable[pipeOp'.commands[i].vin], None, clock').raised
                # "none"
            => /\ pipeOp'.raised = "CommandError"
               /\ pipeOp'.sent = <<>>]_vars

\* C30: whenever no vehicle event waits in the topic, every ride whose
\* delivered events fold to ScheduledRide or InProgressRide with vin V has
\* the vehicle stored for V in status Occupied or OccupiedReturning.
C30_SagaKeepsConsistent ==
    vehicleTopic = <<>>
    => \A r \in RideIds :
         rideStream[r].type \in {"ScheduledRide", "InProgressRide"}
         => /\ vehiclesTable[rideStream[r].vin].type = "VehicleDTO"
            /\ vehiclesTable[rideStream[r].vin].status
                 \in {"Occupied", "OccupiedReturning"}

\* C31: for every accepted (command, state) pair of either aggregate,
\* decide emits the one event the decision table lists, and folding it into
\* the state it was decided against gives the next variant the transition
\* table lists for that event, never the unchanged state; this holds also
\* when the command's ride id or vin is not the state's.
C31_DecideEvolveAgree ==
    (valueOp.kind = "agree" /\ valueOp.raised = "none")
    => LET state == IF valueOp.aggregate = "Ride" THEN ride ELSE vehicle
           event ==
               IF valueOp.aggregate = "Ride"
               THEN RideDecisionTable(valueOp.from.type, valueOp.command)
               ELSE VehicleDecisionTable(valueOp.from.type, valueOp.command)
           next ==
               IF valueOp.aggregate = "Ride"
               THEN RideTransitionTable(valueOp.from.type, event)
               ELSE VehicleTransitionTable(valueOp.from.type, event)
       IN  /\ valueOp.events = <<event>>
           /\ next # "none"
           /\ state.type = next
           /\ state # valueOp.from

C31_Witness ==
    /\ valueOp.kind = "agree"
    /\ valueOp.raised = "none"
    /\ valueOp.foreign
    /\ valueOp.from.type = "RequestedRide"
    /\ ride.type = "ScheduledRide"

\* the saga commands of a ride history, in the order of its events
RECURSIVE SagaCommands(_)
SagaCommands(log) ==
    IF log = <<>> THEN <<>>
    ELSE react_commands(Head(log)) \o SagaCommands(Tail(log))

\* C32: over the history of a ride handled command by command from
\* InitialRideState, the saga commands are a prefix of
\* <<MarkVehicleOccupied(V), MarkVehicleUnoccupied(V)>>, V being the vin
\* the ride was scheduled with: none before the ride is scheduled, the
\* occupy alone while it is scheduled or in progress, both once it is
\* completed or cancelled after scheduling, whatever vin ConfirmPickup gave.
C32_SagaOccupyThenUnoccupy ==
    LET commands == SagaCommands(history) IN
    CASE ride.type \in {"InitialRideState", "RequestedRide",
                        "CancelledRequestedRide"} ->
            commands = <<>>
      [] ride.type \in {"ScheduledRide", "InProgressRide"} ->
            commands = <<MarkVehicleOccupied(ride.vin)>>
      [] ride.type \in {"CancelledScheduledRide", "CompletedRide"} ->
            commands = <<MarkVehicleOccupied(ride.vin),
                         MarkVehicleUnoccupied(ride.vin)>>

C32_Witness ==
    /\ ride.type = "CompletedRide"
    /\ Len(history) = 4
    /\ history[3].type = "RiderPickedUp"
    /\ history[3].vin # history[2].vin
    /\ SagaCommands(history) = <<MarkVehicleOccupied(history[2].vin),
                                 MarkVehicleUnoccupied(history[2].vin)>>

\* C33: the ride-event handler persists the evolved ride read model before
\* it decides the saga's vehicle commands and never rolls it back.  After
\* the handler has handled a ride event the rides table holds, for the
\* event's ride, the read model evolve gives for the event, whatever the
\* saga's decide calls do; and when the vehicle decide of a saga command
\* of the event fails, the vehicles table and the vehicle-events topic are
\* as they were.
C33_RideStoredBeforeSagaDecide ==
    [][pipeOp'.kind = "ride" =>
        LET event == pipeOp'.event
            new_state == evolve(ridesTable[event.ride], event)
            commands == pipeOp'.commands
            rejected ==
                \E i \in 1..Len(commands) :
                    decide(commands[i], vehiclesTable[commands[i].vin],
                           None, clock').raised # "none"
        IN  /\ new_state.raised = "none"
                => ridesTable' = [ridesTable EXCEPT ![event.ride] =
                                     new_state.value]
            /\ rejected => /\ vehiclesTable' = vehiclesTable
                           /\ vehicleTopic' = vehicleTopic]_vars

\* C34: the outcome of a decision (the exception raised, or the classes of
\* the events emitted) is the outcome of deciding one fixed command of the
\* same variant against one fixed state of the same variant, so any two
\* decisions that agree on the command variant and on the state variant
\* have the same outcome, whatever ids, owners, coordinates and times they
\* carry and whether or not the command names the state's ride or vehicle.
C34_OutcomeByVariantsOnly ==
    valueOp.kind = "agree" =>
        LET result ==
              IF valueOp.aggregate = "Ride"
              THEN LET command == CHOOSE c \in RideCommands :
                                      c.type = valueOp.command
                       state == CHOOSE s \in RideStates :
                                      s.type = valueOp.from.type
                   IN  RideCommand_decide(command, state,
                           CHOOSE n \in NewIdsFor(command) : TRUE, 0)
              ELSE LET command == CHOOSE c \in VehicleCommands :
                                      c.type = valueOp.command
                       state == CHOOSE s \in VehicleStates :
                                      s.type = valueOp.from.type
                   IN  VehicleCommand_decide(command, state, 0)
        IN  /\ valueOp.raised = result.raised
            /\ valueOp.events = [i \in 1..Len(result.events) |->
                                    result.events[i].type]

C34_Witness ==
    /\ valueOp.kind = "agree"
    /\ valueOp.aggregate = "Vehicle"
    /\ valueOp.command = "MarkVehicleOccupied"
    /\ valueOp.from.type = "AvailableVehicle"
    /\ valueOp.foreign
    /\ valueOp.events = <<"VehicleOccupied">>
    /\ vehicle.type = "OccupiedVehicle"

\* C35: RemoveVehicle decided on an InventoryVehicle is accepted whoever
\* the command's owner is; the one event emitted is a VehicleRemoved with
\* the vin and the owner of the command, and folding it gives
\* InitialVehicleState.
C35_RemoveFromInventory ==
    (/\ valueOp.kind = "agree"
     /\ valueOp.aggregate = "Vehicle"
     /\ valueOp.given.type = "RemoveVehicle"
     /\ valueOp.from.type = "InventoryVehicle")
    => /\ valueOp.raised = "none"
       /\ Len(valueOp.emitted) = 1
       /\ valueOp.emitted[1].type = "VehicleRemoved"
       /\ valueOp.emitted[1].vin = valueOp.given.vin
       /\ valueOp.emitted[1].owner = valueOp.given.owner
       /\ valueOp.emitted[1].removed_at = clock
       /\ vehicle = InitialVehicleState

C35_Witness ==
    /\ valueOp.kind = "agree"
    /\ valueOp.aggregate = "Vehicle"
    /\ valueOp.given.type = "RemoveVehicle"
    /\ valueOp.from.type = "InventoryVehicle"
    /\ valueOp.given.owner # valueOp.from.owner
    /\ valueOp.given.vin # valueOp.from.vin
    /\ valueOp.emitted = <<VehicleRemoved(valueOp.given.vin,
                                          valueOp.given.owner, clock)>>
    /\ vehicle = InitialVehicleState

\* C36: in the vehicle's loop, a history that ends with VehicleRemoved
\* leaves the vehicle in InitialVehicleState; AddVehicle handled in
\* InitialVehicleState is accepted, after a removal as well as the first
\* time, and the InventoryVehicle folded from its VehicleAdded has the vin
\* and the owner of that event.
C36_RemovedVehicleForgets ==
    (rideOp = NoOp /\ history # <<>>) =>
        LET last == history[Len(history)] IN
        /\ last.type = "VehicleRemoved" => vehicle = InitialVehicleState
        /\ (/\ vehicleOp.kind = "handle"
            /\ vehicleOp.command.type = "AddVehicle"
            /\ vehicleOp.from.type = "InitialVehicleState")
           => /\ vehicleOp.raised = "none"
              /\ last = VehicleAdded(vehicleOp.command.vin,
                                     vehicleOp.command.owner)
              /\ vehicle = InventoryVehicle(last.vin, last.owner)

C36_Witness ==
    /\ rideOp = NoOp
    /\ Len(history) = 3
    /\ history[1].type = "VehicleAdded"
    /\ history[2].type = "VehicleRemoved"
    /\ history[3].type = "VehicleAdded"
    /\ history[3].vin # history[1].vin
    /\ history[3].owner # history[1].owner
    /\ vehicle = InventoryVehicle(history[3].vin, history[3].owner)

\* The states one accepted command away from a vehicle state: the command
\* is decided against the state and its events are folded into it.
VehicleSuccessors(state) ==
    {FoldVehicle(state, VehicleCommand_decide(command, state, 0).events) :
        command \in {c \in VehicleCommands :
                        VehicleCommand_decide(c, state, 0).raised = "none"}}

\* The states that sequences of accepted commands lead to from the states
\* of a set, the states of the set included.
RECURSIVE VehicleReach(_)
VehicleReach(states) ==
    LET next == states \cup UNION {VehicleSuccessors(s) : s \in states} IN
    IF next = states THEN states ELSE VehicleReach(next)

\* The vehicle states that are no dead end: the state accepts some
\* command, and accepted commands lead from it to an InventoryVehicle and
\* from that one on to InitialVehicleState.
VehicleLive ==
    {state \in VehicleStates :
        /\ VehicleSuccessors(state) # {}
        /\ \E inventory \in VehicleReach({state}) :
             /\ inventory.type = "InventoryVehicle"
             /\ InitialVehicleState \in VehicleReach({inventory})}

\* C37: the vehicle of the loop is never at a dead end: its state accepts
\* some command, and accepted commands lead from it to an InventoryVehicle
\* and from that one on to InitialVehicleState; a ride in one of the three
\* terminal variants accepts no command.
C37_NoDeadEnd ==
    /\ vehicle \in VehicleLive
    /\ ride.type \in TerminalRideTypes =>
         \A command \in RideCommands : \A new_id \in NewIdsFor(command) :
            RideCommand_decide(command, ride, new_id, 0).raised # "none"

C37_Witness ==
    /\ rideOp = NoOp
    /\ Len(history) = MaxLog
    /\ vehicleOp.kind = "handle"
    /\ vehicleOp.raised = "none"
    /\ vehicle.type = "OccupiedReturningVehicle"
    /\ InventoryVehicle(vehicle.vin, vehicle.owner) \in VehicleReach({vehicle})
    /\ vehicle \in VehicleLive

\* C38: a state the loop has reached is encoded as a read-model DTO
\* without an exception, and decoding the DTO gives the same state back;
\* a ride DTO with status Cancelled decodes to CancelledRequestedRide
\* when its scheduled_at is None and to CancelledScheduledRide otherwise.
C38_ReadModelRoundTrip ==
    facadeOp.kind = "converted" =>
        /\ facadeOp.dto.raised = "none"
        /\ facadeOp.back.raised = "none"
        /\ facadeOp.back.value = facadeOp.instance
        /\ (/\ facadeOp.aggregate = "Ride"
            /\ facadeOp.dto.value.ride.type # "NoneType"
            /\ facadeOp.dto.value.ride.status = "Cancelled")
           => facadeOp.back.value.type =
                IF facadeOp.dto.value.ride.scheduled_at = None
                THEN "CancelledRequestedRide" ELSE "CancelledScheduledRide"

====
